---- MODULE Spec2Model ----
(***************************************************************************)
(* A model of the XML-RPC server of xml-rpc-rs: the dispatcher             *)
(* (src/server.rs: Server), the HTTP framing (src/http/request.rs,         *)
(* src/http/response.rs) and the transport loops (src/server.rs:           *)
(* BoundServer, accept_loop_tcp, accept_loop_udp, handle_connection,       *)
(* handle_udp_message).                                                    *)
(*                                                                         *)
(* Byte streams, header lines and XML texts are TLA+ strings; one          *)
(* character stands for one byte (the model's inputs are ASCII, except     *)
(* for NonUtf8Byte, which stands for a byte that is not valid UTF-8).      *)
(***************************************************************************)
EXTENDS Integers, Sequences, FiniteSets, TLC

(***************************************************************************)
(* Option<T>                                                               *)
(***************************************************************************)
None == [some |-> FALSE]

Some(x) == [some |-> TRUE, v |-> x]

(***************************************************************************)
(* Strings                                                                 *)
(***************************************************************************)
CharAt(s, i) == SubSeq(s, i, i)

StartsWith(s, p) == Len(s) >= Len(p) /\ SubSeq(s, 1, Len(p)) = p

Drop(s, n) == SubSeq(s, n + 1, Len(s))

UpperChars == "ABCDEFGHIJKLMNOPQRSTUVWXYZ"

LowerChars == "abcdefghijklmnopqrstuvwxyz"

UpperSet == {CharAt(UpperChars, i) : i \in 1..Len(UpperChars)}

LowerOf ==
  [c \in UpperSet |->
     CharAt(LowerChars, CHOOSE i \in 1..Len(UpperChars) : CharAt(UpperChars, i) = c)]

\* u8::to_ascii_lowercase on one character
LowerChar(c) == IF c \in UpperSet THEN LowerOf[c] ELSE c

RECURSIVE Lower(_)
Lower(s) == IF s = "" THEN "" ELSE LowerChar(CharAt(s, 1)) \o Lower(Drop(s, 1))

\* HeaderField::equiv: ASCII-case-insensitive comparison of a field name
equiv(field, name) == Len(field) = Len(name) /\ Lower(field) = Lower(name)

Digits == "0123456789"

IsDigit(c) == \E i \in 1..Len(Digits) : CharAt(Digits, i) = c

DigitVal(c) == (CHOOSE i \in 1..Len(Digits) : CharAt(Digits, i) = c) - 1

RECURSIVE AllDigits(_)
AllDigits(s) == s = "" \/ (IsDigit(CharAt(s, 1)) /\ AllDigits(Drop(s, 1)))

RECURSIVE DigitsVal(_, _)
DigitsVal(s, acc) ==
  IF s = "" THEN acc ELSE DigitsVal(Drop(s, 1), acc * 10 + DigitVal(CharAt(s, 1)))

ParseUnsigned(d) == IF d # "" /\ AllDigits(d) THEN Some(DigitsVal(d, 0)) ELSE None

\* usize::from_str / str::parse::<usize>: an optional '+', then one or more digits
ParseUsize(s) == ParseUnsigned(IF StartsWith(s, "+") THEN Drop(s, 1) ELSE s)

RECURSIVE StripZeros(_)
StripZeros(s) ==
  IF Len(s) > 1 /\ CharAt(s, 1) = "0" THEN StripZeros(Drop(s, 1)) ELSE s

\* a <= b for digit strings of the same length
RECURSIVE DigitsLeq(_, _)
DigitsLeq(a, b) ==
  \/ a = ""
  \/ DigitVal(CharAt(a, 1)) < DigitVal(CharAt(b, 1))
  \/ CharAt(a, 1) = CharAt(b, 1) /\ DigitsLeq(Drop(a, 1), Drop(b, 1))

\* the value of -d, accumulated downwards (i32::MIN has no positive counterpart)
RECURSIVE NegDigitsVal(_, _)
NegDigitsVal(s, acc) ==
  IF s = "" THEN acc ELSE NegDigitsVal(Drop(s, 1), acc * 10 - DigitVal(CharAt(s, 1)))

ParseMagnitude(neg, z) ==
  IF \/ Len(z) < 10
     \/ Len(z) = 10 /\ DigitsLeq(z, IF neg THEN "2147483648" ELSE "2147483647")
  THEN Some(IF neg THEN NegDigitsVal(z, 0) ELSE DigitsVal(z, 0))
  ELSE None

ParseSigned(neg, d) ==
  IF d # "" /\ AllDigits(d) THEN ParseMagnitude(neg, StripZeros(d)) ELSE None

\* i32::from_str: an optional sign, then one or more digits, within 32 bits
ParseI32(s) ==
  ParseSigned(StartsWith(s, "-"),
              IF StartsWith(s, "-") \/ StartsWith(s, "+") THEN Drop(s, 1) ELSE s)

(***************************************************************************)
(* Value model and protocol Response (xmlfmt)                              *)
(***************************************************************************)
Int32(n) == [t |-> "Int", i |-> n]

Str(s) == [t |-> "String", s |-> s]

Bool(b) == [t |-> "Bool", b |-> b]

\* a finite f64 that is a decimal number, (-1)^neg * mant / 10^scale with mant
\* no multiple of 10 unless scale is 0
Double(neg, mant, scale) ==
  [t |-> "Double", nan |-> FALSE, neg |-> neg, mant |-> mant, scale |-> scale]

\* f64::NAN
DoubleNaN == [t |-> "Double", nan |-> TRUE, neg |-> FALSE, mant |-> 0, scale |-> 0]

DateTime(text) == [t |-> "DateTime", dt |-> text]

Base64(text) == [t |-> "Base64", b64 |-> text]

Array(items) == [t |-> "Array", items |-> items]

\* a mapping from member names to Values
Struct(members) == [t |-> "Struct", members |-> members]

\* Value's == : f64 equality on Doubles, element by element on Arrays, member
\* by member on Structs
RECURSIVE ValueEq(_, _)
ValueEq(a, b) ==
  /\ a.t = b.t
  /\ CASE a.t = "Double" -> ~a.nan /\ ~b.nan /\ a = b
       [] a.t = "Array" ->
            /\ Len(a.items) = Len(b.items)
            /\ \A i \in 1..Len(a.items) : ValueEq(a.items[i], b.items[i])
       [] a.t = "Struct" ->
            /\ DOMAIN a.members = DOMAIN b.members
            /\ \A n \in DOMAIN a.members : ValueEq(a.members[n], b.members[n])
       [] OTHER -> a = b

ParamsEq(ps, qs) ==
  /\ Len(ps) = Len(qs)
  /\ \A i \in 1..Len(ps) : ValueEq(ps[i], qs[i])

\* Response = Result<Vec<Value>, Fault>
Success(params) == [ok |-> TRUE, params |-> params]

Fault(code, message) == [ok |-> FALSE, code |-> code, message |-> message]

\* Call { name, params }
Call(name, params) == [name |-> name, params |-> params]

(***************************************************************************)
(* XML codec (xmlfmt::value::ToXml, xmlfmt::parse), from the grammar of    *)
(* the specification, section 4.1                                          *)
(***************************************************************************)
\* character data written as it is
EscapeNone(s) == s

\* character data with the markup characters escaped
RECURSIVE Escape(_)
Escape(s) ==
  IF s = "" THEN ""
  ELSE (CASE CharAt(s, 1) = "&" -> "&amp;"
          [] CharAt(s, 1) = "<" -> "&lt;"
          [] CharAt(s, 1) = ">" -> "&gt;"
          [] OTHER -> CharAt(s, 1))
       \o Escape(Drop(s, 1))

RECURSIVE Unescape(_)
Unescape(s) ==
  IF s = "" THEN ""
  ELSE CASE StartsWith(s, "&amp;") -> "&" \o Unescape(Drop(s, 5))
         [] StartsWith(s, "&lt;") -> "<" \o Unescape(Drop(s, 4))
         [] StartsWith(s, "&gt;") -> ">" \o Unescape(Drop(s, 4))
         [] OTHER -> CharAt(s, 1) \o Unescape(Drop(s, 1))

RECURSIVE Zeros(_)
Zeros(n) == IF n <= 0 THEN "" ELSE "0" \o Zeros(n - 1)

\* the digits d with a decimal point before the last scale of them
PointAt(d, scale) ==
  SubSeq(d, 1, Len(d) - scale) \o "." \o SubSeq(d, Len(d) - scale + 1, Len(d))

Decimal(d, scale) ==
  IF scale = 0 THEN d ELSE PointAt(Zeros(scale + 1 - Len(d)) \o d, scale)

\* f64 as Display writes it
DoubleText(v) ==
  IF v.nan THEN "NaN"
  ELSE (IF v.neg THEN "-" ELSE "") \o Decimal(ToString(v.mant), v.scale)

\* the members of a set in the order the map iterates over them
SetToSeq(S) ==
  CHOOSE f \in [1..Cardinality(S) -> S] : \A i, j \in DOMAIN f : i # j => f[i] # f[j]

RECURSIVE ValueToXml(_)
RECURSIVE ItemsToXml(_)
ItemsToXml(items) ==
  IF items = <<>> THEN "" ELSE ValueToXml(Head(items)) \o ItemsToXml(Tail(items))

RECURSIVE MembersToXml(_, _)
MembersToXml(members, names) ==
  IF names = <<>> THEN ""
  ELSE "<member><name>" \o Escape(Head(names)) \o "</name>"
       \o ValueToXml(members[Head(names)]) \o "</member>"
       \o MembersToXml(members, Tail(names))

ValueToXml(v) ==
  "<value>" \o
  (CASE v.t = "Int" -> "<i4>" \o ToString(v.i) \o "</i4>"
     [] v.t = "String" -> "<string>" \o Escape(v.s) \o "</string>"
     [] v.t = "Bool" -> "<boolean>" \o (IF v.b THEN "1" ELSE "0") \o "</boolean>"
     [] v.t = "Double" -> "<double>" \o DoubleText(v) \o "</double>"
     [] v.t = "DateTime" ->
          "<dateTime.iso8601>" \o Escape(v.dt) \o "</dateTime.iso8601>"
     [] v.t = "Base64" -> "<base64>" \o Escape(v.b64) \o "</base64>"
     [] v.t = "Array" -> "<array><data>" \o ItemsToXml(v.items) \o "</data></array>"
     [] v.t = "Struct" ->
          "<struct>" \o MembersToXml(v.members, SetToSeq(DOMAIN v.members))
          \o "</struct>")
  \o "</value>"

RECURSIVE ParamsToXml(_)
ParamsToXml(ps) ==
  IF ps = <<>> THEN ""
  ELSE "<param>" \o ValueToXml(Head(ps)) \o "</param>" \o ParamsToXml(Tail(ps))

\* ToXml for Response
to_xml(res) ==
  IF res.ok
  THEN "<methodResponse><params>" \o ParamsToXml(res.params)
       \o "</params></methodResponse>"
  ELSE "<methodResponse><fault><value><struct>"
       \o "<member><name>faultCode</name><value><int>" \o ToString(res.code)
       \o "</int></value></member>"
       \o "<member><name>faultString</name><value><string>" \o Escape(res.message)
       \o "</string></value></member>"
       \o "</struct></value></fault></methodResponse>"

\* ToXml for Call
CallToXml(call) ==
  "<methodCall><methodName>" \o Escape(call.name) \o "</methodName><params>"
  \o ParamsToXml(call.params) \o "</params></methodCall>"

IsWs(c) == c \in {" ", "\n", "\r", "\t"}

RECURSIVE SkipWs(_)
SkipWs(s) == IF s # "" /\ IsWs(CharAt(s, 1)) THEN SkipWs(Drop(s, 1)) ELSE s

ExpectAt(t, tag) == IF StartsWith(t, tag) THEN Some(Drop(t, Len(tag))) ELSE None

\* the text after the tag `tag`, when the input (after whitespace) begins with it
Expect(s, tag) == ExpectAt(SkipWs(s), tag)

\* the length of the character data at the front of s (up to the next '<')
RECURSIVE TextLen(_, _)
TextLen(s, i) ==
  IF i > Len(s) \/ CharAt(s, i) = "<" THEN i - 1 ELSE TextLen(s, i + 1)

ElementClose(text, after, close) ==
  IF StartsWith(after, close)
  THEN Some([text |-> Unescape(text), rest |-> Drop(after, Len(close))])
  ELSE None

ElementText(body, n, close) == ElementClose(SubSeq(body, 1, n), Drop(body, n), close)

ElementOpen(open, close) ==
  IF open.some THEN ElementText(open.v, TextLen(open.v, 1), close) ELSE None

\* <tag>text</tag>: the text and the rest of the input
Element(s, tag) == ElementOpen(Expect(s, "<" \o tag \o ">"), "</" \o tag \o ">")

Parsed(val, rest) == Some([val |-> val, rest |-> rest])

ParseIntVal(n, rest) == IF n.some THEN Parsed(Int32(n.v), rest) ELSE None

ParseIntOf(e) == IF e.some THEN ParseIntVal(ParseI32(e.v.text), e.v.rest) ELSE None

ParseInt(s, tag) == ParseIntOf(Element(s, tag))

ParseStringOf(e) == IF e.some THEN Parsed(Str(e.v.text), e.v.rest) ELSE None

ParseBoolOf(e) ==
  IF e.some /\ e.v.text \in {"0", "1"} THEN Parsed(Bool(e.v.text = "1"), e.v.rest)
  ELSE None

\* the index of the first '.' of s, or 0
FindDot(s) ==
  IF \E i \in 1..Len(s) : CharAt(s, i) = "."
  THEN CHOOSE i \in 1..Len(s) :
         CharAt(s, i) = "." /\ \A j \in 1..(i - 1) : CharAt(s, j) # "."
  ELSE 0

RECURSIVE NormDouble(_, _, _)
NormDouble(neg, mant, scale) ==
  IF scale > 0 /\ mant % 10 = 0 THEN NormDouble(neg, mant \div 10, scale - 1)
  ELSE Double(neg, mant, scale)

DoubleOfParts(neg, int, frac) ==
  IF int # "" /\ AllDigits(int) /\ AllDigits(frac)
  THEN Some(NormDouble(neg, DigitsVal(int \o frac, 0), Len(frac)))
  ELSE None

DoubleOfDigits(neg, d, dot) ==
  IF dot = 0 THEN DoubleOfParts(neg, d, "")
  ELSE DoubleOfParts(neg, SubSeq(d, 1, dot - 1), Drop(d, dot))

DoubleOfUnsigned(neg, d) == DoubleOfDigits(neg, d, FindDot(d))

\* f64::from_str on the decimal forms: NaN, or an optional sign, digits and an
\* optional fraction
ParseF64(text) ==
  CASE text = "NaN" -> Some(DoubleNaN)
    [] StartsWith(text, "-") -> DoubleOfUnsigned(TRUE, Drop(text, 1))
    [] StartsWith(text, "+") -> DoubleOfUnsigned(FALSE, Drop(text, 1))
    [] OTHER -> DoubleOfUnsigned(FALSE, text)

ParseDoubleVal(d, rest) == IF d.some THEN Parsed(d.v, rest) ELSE None

ParseDoubleOf(e) == IF e.some THEN ParseDoubleVal(ParseF64(e.v.text), e.v.rest) ELSE None

ParseDateTimeOf(e) == IF e.some THEN Parsed(DateTime(e.v.text), e.v.rest) ELSE None

ParseBase64Of(e) == IF e.some THEN Parsed(Base64(e.v.text), e.v.rest) ELSE None

RECURSIVE ParseValue(_)
\* <value>..</value>* up to </data></array>
RECURSIVE ParseItems(_, _)
ParseArrayEnd(close, acc) == IF close.some THEN Parsed(Array(acc), close.v) ELSE None

ParseItem(x, acc) == IF x.some THEN ParseItems(x.v.rest, Append(acc, x.v.val)) ELSE None

ParseItemsAt(end, s, acc) ==
  IF end.some THEN ParseArrayEnd(Expect(end.v, "</array>"), acc)
  ELSE ParseItem(ParseValue(s), acc)

ParseItems(s, acc) == ParseItemsAt(Expect(s, "</data>"), s, acc)

ParseArrayData(data) == IF data.some THEN ParseItems(data.v, <<>>) ELSE None

ParseArray(t) == ParseArrayData(Expect(Drop(t, Len("<array>")), "<data>"))

\* (<member><name>..</name><value>..</value></member>)* up to </struct>; a name
\* met again replaces the earlier member
RECURSIVE ParseMembers(_, _)
ParseMemberClose(close, acc) == IF close.some THEN ParseMembers(close.v, acc) ELSE None

ParseMemberValue(name, x, acc) ==
  IF x.some
  THEN ParseMemberClose(Expect(x.v.rest, "</member>"), (name :> x.v.val) @@ acc)
  ELSE None

ParseMemberName(name, acc) ==
  IF name.some THEN ParseMemberValue(name.v.text, ParseValue(name.v.rest), acc)
  ELSE None

ParseMemberOpen(open, acc) ==
  IF open.some THEN ParseMemberName(Element(open.v, "name"), acc) ELSE None

ParseMembersAt(end, s, acc) ==
  IF end.some THEN Parsed(Struct(acc), end.v)
  ELSE ParseMemberOpen(Expect(s, "<member>"), acc)

ParseMembers(s, acc) == ParseMembersAt(Expect(s, "</struct>"), s, acc)

ParseStruct(t) == ParseMembers(Drop(t, Len("<struct>")), <<>>)

ParseScalarAt(t) ==
  CASE StartsWith(t, "<i4>") -> ParseInt(t, "i4")
    [] StartsWith(t, "<int>") -> ParseInt(t, "int")
    [] StartsWith(t, "<string/>") -> Parsed(Str(""), Drop(t, Len("<string/>")))
    [] StartsWith(t, "<string>") -> ParseStringOf(Element(t, "string"))
    [] StartsWith(t, "<boolean>") -> ParseBoolOf(Element(t, "boolean"))
    [] StartsWith(t, "<double>") -> ParseDoubleOf(Element(t, "double"))
    [] StartsWith(t, "<dateTime.iso8601>") ->
         ParseDateTimeOf(Element(t, "dateTime.iso8601"))
    [] StartsWith(t, "<base64>") -> ParseBase64Of(Element(t, "base64"))
    [] StartsWith(t, "<array>") -> ParseArray(t)
    [] StartsWith(t, "<struct>") -> ParseStruct(t)
    [] OTHER -> None

\* the scalar inside <value>..</value>
ParseScalar(s) == ParseScalarAt(SkipWs(s))

ParseValueEnd(val, close) == IF close.some THEN Parsed(val, close.v) ELSE None

ParseValueClose(x) ==
  IF x.some THEN ParseValueEnd(x.v.val, Expect(x.v.rest, "</value>")) ELSE None

ParseValueOpen(open) == IF open.some THEN ParseValueClose(ParseScalar(open.v)) ELSE None

\* parse_xml_value on <value>..</value>
ParseValue(s) == ParseValueOpen(Expect(s, "<value>"))

\* (<param><value>..</value></param>)* up to </params>
RECURSIVE ParseParams(_, _)
ParseParamClose(close, acc) == IF close.some THEN ParseParams(close.v, acc) ELSE None

ParseParamValue(x, acc) ==
  IF x.some THEN ParseParamClose(Expect(x.v.rest, "</param>"), Append(acc, x.v.val))
  ELSE None

ParseParamOpen(open, acc) ==
  IF open.some THEN ParseParamValue(ParseValue(open.v), acc) ELSE None

ParseParamsAt(end, s, acc) ==
  IF end.some THEN Parsed(acc, end.v) ELSE ParseParamOpen(Expect(s, "<param>"), acc)

ParseParams(s, acc) == ParseParamsAt(Expect(s, "</params>"), s, acc)

ParseCallEnd(name, params, close) ==
  IF close.some /\ SkipWs(close.v) = "" THEN Some(Call(name, params)) ELSE None

ParseCallClose(name, ps) ==
  IF ps.some THEN ParseCallEnd(name, ps.v.val, Expect(ps.v.rest, "</methodCall>"))
  ELSE None

ParseCallParams(name, rest, popen) ==
  IF popen.some THEN ParseCallClose(name, ParseParams(popen.v, <<>>))
  ELSE ParseCallClose(name, Parsed(<<>>, rest))

ParseCallName(name) ==
  IF name.some THEN ParseCallParams(name.v.text, name.v.rest, Expect(name.v.rest, "<params>"))
  ELSE None

ParseCallOpen(open) ==
  IF open.some THEN ParseCallName(Element(open.v, "methodName")) ELSE None

\* parse::call: Some(Call) or None on a decode error
parse_call(body) == ParseCallOpen(Expect(body, "<methodCall>"))

ParseResponseEnd(res, close) ==
  IF close.some /\ SkipWs(close.v) = "" THEN Some(res) ELSE None

ParseSuccess(ps) ==
  IF ps.some
  THEN ParseResponseEnd(Success(ps.v.val), Expect(ps.v.rest, "</methodResponse>"))
  ELSE None

IsFaultStruct(v) ==
  /\ v.t = "Struct"
  /\ DOMAIN v.members = {"faultCode", "faultString"}
  /\ v.members["faultCode"].t = "Int"
  /\ v.members["faultString"].t = "String"

ParseFaultEnd(v, close) ==
  IF close.some
  THEN ParseResponseEnd(Fault(v.members["faultCode"].i, v.members["faultString"].s),
                        Expect(close.v, "</methodResponse>"))
  ELSE None

ParseFaultValue(x) ==
  IF x.some /\ IsFaultStruct(x.v.val)
  THEN ParseFaultEnd(x.v.val, Expect(x.v.rest, "</fault>"))
  ELSE None

ParseFault(fault) == IF fault.some THEN ParseFaultValue(ParseValue(fault.v)) ELSE None

ParseResponseBody(s, popen) ==
  IF popen.some THEN ParseSuccess(ParseParams(popen.v, <<>>))
  ELSE ParseFault(Expect(s, "<fault>"))

ParseResponseOpen(open) ==
  IF open.some THEN ParseResponseBody(open.v, Expect(open.v, "<params>")) ELSE None

\* parse::response: Some(Response) or None on a decode error
parse_response(body) == ParseResponseOpen(Expect(body, "<methodResponse>"))

(***************************************************************************)
(* Typed bridge (xmlfmt::from_params, xmlfmt::into_params), from the       *)
(* specification, section 4.1.  The typed request of the model's typed     *)
(* handlers is the pair (i32, i32); a typed result is an i32, which the    *)
(* Value model represents, or an i64 (its two 32-bit halves), which it     *)
(* does not.                                                               *)
(***************************************************************************)
Ok(v) == [ok |-> TRUE, v |-> v]

Err(e) == [ok |-> FALSE, err |-> e]

TypedI32(n) == [ty |-> "i32", n |-> n]

TypedI64(hi, lo) == [ty |-> "i64", hi |-> hi, lo |-> lo]

from_params(req) ==
  IF Len(req) # 2 THEN Err("wrong number of params")
  ELSE IF req[1].t # "Int" \/ req[2].t # "Int" THEN Err("expected int")
  ELSE Ok(<<req[1].i, req[2].i>>)

into_params(res) ==
  IF res.ty = "i32" THEN Ok(<<Int32(res.n)>>) ELSE Err("i64 is not supported")

(***************************************************************************)
(* Handlers: the application closures the registry is populated with       *)
(***************************************************************************)
\* Fn(Vec<Value>) -> Response given to register_value / set_on_missing
RawHandlers == {"echo", "boom"}

RawApply(f, params) ==
  CASE f = "echo" -> Success(params)
    [] f = "boom" -> Fault(7, "boom")

\* Fn(Treq) -> Result<Tres, Fault> given to register / register_simple
TypedHandlers == {"div", "wide"}

TypedApply(h, p) ==
  CASE h = "div" -> IF p[2] = 0 THEN Err(Fault(22, "division by zero"))
                    ELSE Ok(TypedI32(p[1] \div p[2]))
    [] h = "wide" -> Ok(TypedI64(p[1], p[2]))

\* Fn(&error::Error) -> Response given to register as encode_fail / decode_fail
Hooks == {"on_encode_fail", "on_decode_fail", "lenient"}

on_decode_fail(err) == Fault(400, "Failed to decode request: " \o err)

on_encode_fail(err) == Fault(500, "Failed to encode response: " \o err)

HookApply(k, err) ==
  CASE k = "on_decode_fail" -> on_decode_fail(err)
    [] k = "on_encode_fail" -> on_encode_fail(err)
    [] k = "lenient" -> Success(<<Str(err)>>)

on_missing_method(params) == Fault(404, "Requested method does not exist")

(***************************************************************************)
(* Server (the dispatcher).  A Handler is a boxed closure: the default     *)
(* missing-method function, a raw closure, or the closure register builds  *)
(* around a typed handler and its two hooks.  Invoking one yields its      *)
(* Response and the functions it called, in call order.                    *)
(***************************************************************************)
DefaultMissing == [kind |-> "on_missing_method"]

RawClosure(f) == [kind |-> "raw", f |-> f]

TypedClosure(h, ef, df) ==
  [kind |-> "typed", handler |-> h, encode_fail |-> ef, decode_fail |-> df]

\* the closure with its hooks exchanged and a handler's Fault routed to a hook
RegisterClosureSwapped(c, req) ==
  LET params == from_params(req)
  IN IF ~params.ok
     THEN [res |-> HookApply(c.encode_fail, params.err),
           calls |-> <<"from_params", "encode_fail">>]
     ELSE LET response == TypedApply(c.handler, params.v)
          IN IF ~response.ok
             THEN [res |-> HookApply(c.encode_fail, response.err.message),
                   calls |-> <<"from_params", "handler", "encode_fail">>]
             ELSE LET enc == into_params(response.v)
                  IN IF enc.ok
                     THEN [res |-> Success(enc.v),
                           calls |-> <<"from_params", "handler", "into_params">>]
                     ELSE [res |-> HookApply(c.decode_fail, enc.err),
                           calls |-> <<"from_params", "handler", "into_params",
                                       "decode_fail">>]

\* the closure of Server::register, applied to req
RegisterClosure(c, req) ==
  LET params == from_params(req)
  IN IF ~params.ok
     THEN [res |-> HookApply(c.decode_fail, params.err),
           calls |-> <<"from_params", "decode_fail">>]
     ELSE LET response == TypedApply(c.handler, params.v)
          IN IF ~response.ok
             THEN [res |-> response.err, calls |-> <<"from_params", "handler">>]
             ELSE LET enc == into_params(response.v)
                  IN IF enc.ok
                     THEN [res |-> Success(enc.v),
                           calls |-> <<"from_params", "handler", "into_params">>]
                     ELSE [res |-> HookApply(c.encode_fail, enc.err),
                           calls |-> <<"from_params", "handler", "into_params",
                                       "encode_fail">>]

Invoke(h, params) ==
  CASE h.kind = "on_missing_method" ->
         [res |-> on_missing_method(params), calls |-> <<"on_missing_method">>]
    [] h.kind = "raw" -> [res |-> RawApply(h.f, params), calls |-> <<h.f>>]
    [] h.kind = "typed" -> RegisterClosure(h, params)

Server_new == [handlers |-> <<>>, on_missing_method |-> DefaultMissing]

register_value(self, name, handler) ==
  [self EXCEPT !.handlers = (name :> handler) @@ @]

register(self, name, handler, encode_fail, decode_fail) ==
  register_value(self, name, TypedClosure(handler, encode_fail, decode_fail))

register_simple(self, name, handler) ==
  register(self, name, handler, "on_encode_fail", "on_decode_fail")

set_on_missing(self, handler) == [self EXCEPT !.on_missing_method = handler]

\* a lookup that ignores the letter case of the method name
handle_caseless(self, req) ==
  IF \E n \in DOMAIN self.handlers : equiv(n, req.name)
  THEN Invoke(self.handlers[CHOOSE n \in DOMAIN self.handlers : equiv(n, req.name)],
              req.params)
  ELSE Invoke(self.on_missing_method, req.params)

\* Server::handle: the Response (res) and the functions called (calls)
handle(self, req) ==
  IF req.name \in DOMAIN self.handlers
  THEN Invoke(self.handlers[req.name], req.params)
  ELSE Invoke(self.on_missing_method, req.params)

(***************************************************************************)
(* HTTP Response (src/http/response.rs)                                    *)
(***************************************************************************)
Header(field, value) == [field |-> field, value |-> value]

\* the index of the first header whose field is equivalent to name, or 0
FindHeader(headers, name) ==
  IF \E i \in 1..Len(headers) : equiv(headers[i].field, name)
  THEN CHOOSE i \in 1..Len(headers) :
         /\ equiv(headers[i].field, name)
         /\ \A j \in 1..(i - 1) : ~equiv(headers[j].field, name)
  ELSE 0

\* a Content-Length given as a header is kept as a header
add_header_keeps_length(self, header) ==
  IF \/ equiv(header.field, "Connection")
     \/ equiv(header.field, "Trailer")
     \/ equiv(header.field, "Transfer-Encoding")
     \/ equiv(header.field, "Upgrade")
  THEN self
  ELSE IF equiv(header.field, "Content-Type") /\ FindHeader(self.headers, "Content-Type") # 0
  THEN [self EXCEPT !.headers[FindHeader(self.headers, "Content-Type")].value = header.value]
  ELSE [self EXCEPT !.headers = Append(@, header)]

\* a second Content-Type is appended
add_header_appends_type(self, header) ==
  IF \/ equiv(header.field, "Connection")
     \/ equiv(header.field, "Trailer")
     \/ equiv(header.field, "Transfer-Encoding")
     \/ equiv(header.field, "Upgrade")
  THEN self
  ELSE IF equiv(header.field, "Content-Length")
  THEN IF ParseUsize(header.value).some
       THEN [self EXCEPT !.data_length = ParseUsize(header.value).v]
       ELSE self
  ELSE [self EXCEPT !.headers = Append(@, header)]

\* the forbidden names matched in their canonical spelling only
add_header_exact_case(self, header) ==
  IF header.field \in {"Connection", "Trailer", "Transfer-Encoding", "Upgrade"}
  THEN self
  ELSE IF equiv(header.field, "Content-Length")
  THEN IF ParseUsize(header.value).some
       THEN [self EXCEPT !.data_length = ParseUsize(header.value).v]
       ELSE self
  ELSE IF equiv(header.field, "Content-Type") /\ FindHeader(self.headers, "Content-Type") # 0
  THEN [self EXCEPT !.headers[FindHeader(self.headers, "Content-Type")].value = header.value]
  ELSE [self EXCEPT !.headers = Append(@, header)]

\* Response::add_header
add_header(self, header) ==
  IF \/ equiv(header.field, "Connection")
     \/ equiv(header.field, "Trailer")
     \/ equiv(header.field, "Transfer-Encoding")
     \/ equiv(header.field, "Upgrade")
  THEN self
  ELSE IF equiv(header.field, "Content-Length")
  THEN IF ParseUsize(header.value).some
       THEN [self EXCEPT !.data_length = ParseUsize(header.value).v]
       ELSE self
  ELSE IF equiv(header.field, "Content-Type") /\ FindHeader(self.headers, "Content-Type") # 0
  THEN [self EXCEPT !.headers[FindHeader(self.headers, "Content-Type")].value = header.value]
  ELSE [self EXCEPT !.headers = Append(@, header)]

RECURSIVE AddHeaders(_, _)
AddHeaders(self, headers) ==
  IF headers = <<>> THEN self
  ELSE AddHeaders(add_header(self, Head(headers)), Tail(headers))

\* a constructor that stores the header list as given
Response_new_stores(status_code, headers, data, data_length) ==
  [status_code |-> status_code, headers |-> headers, data |-> data,
   data_length |-> data_length]

\* Response::new
Response_new(status_code, headers, data, data_length) ==
  AddHeaders([status_code |-> status_code, headers |-> <<>>, data |-> data,
              data_length |-> data_length], headers)

with_header(self, header) == add_header(self, header)

with_status_code(self, code) == [self EXCEPT !.status_code = code]

with_data(self, data, data_length) ==
  [self EXCEPT !.data = data, !.data_length = data_length]

empty_400 == Response_new(400, <<>>, None, 0)

from_data(content_type, data) ==
  Response_new(200, <<Header("Content-Type", content_type)>>, data,
               IF data.some THEN Len(data.v) ELSE 0)

(***************************************************************************)
(* Server::handle_outer: the HTTP response and the functions called        *)
(***************************************************************************)
\* a fault's code used as the HTTP status of the response
handle_outer_fault_status(self, request) ==
  IF ~request.body.some
  THEN [response |-> empty_400, calls |-> <<>>]
  ELSE LET call == parse_call(request.body.v)
       IN IF ~call.some
          THEN [response |-> empty_400, calls |-> <<>>]
          ELSE LET run == handle(self, call.v)
                   resp == from_data("text/xml", Some(to_xml(run.res)))
               IN [response |-> IF run.res.ok THEN resp
                                ELSE with_status_code(resp, run.res.code),
                   calls |-> run.calls]

\* an undecodable body answered by the missing-method handler
handle_outer_lenient(self, request) ==
  IF ~request.body.some
  THEN [response |-> empty_400, calls |-> <<>>]
  ELSE LET call == parse_call(request.body.v)
           run == IF call.some THEN handle(self, call.v)
                  ELSE Invoke(self.on_missing_method, <<>>)
       IN [response |-> from_data("text/xml", Some(to_xml(run.res))),
           calls |-> run.calls]

handle_outer(self, request) ==
  IF ~request.body.some
  THEN [response |-> empty_400, calls |-> <<>>]
  ELSE LET call == parse_call(request.body.v)
       IN IF ~call.some
          THEN [response |-> empty_400, calls |-> <<>>]
          ELSE LET run == handle(self, call.v)
               IN [response |-> from_data("text/xml", Some(to_xml(run.res))),
                   calls |-> run.calls]

(***************************************************************************)
(* HTTP Request (src/http/request.rs)                                      *)
(***************************************************************************)
Request_new(remote_addr, method, path, http_version, headers, body_length, body) ==
  [remote_addr |-> remote_addr, method |-> method, path |-> path,
   http_version |-> http_version, headers |-> headers,
   body_length |-> body_length, body |-> body]

(***************************************************************************)
(* Request framing (src/http/request.rs).  A reader is the unread bytes    *)
(* and whether the stream ends after them (the peer closed, or the reader  *)
(* is a Cursor over a buffer).  A read yields "ok", "err" (an io::Error),  *)
(* "panic", or "block" when more bytes are needed and the stream is open.  *)
(***************************************************************************)
\* stands for a byte (sequence) that is not valid UTF-8
NonUtf8Byte == "^"

\* stands for the byte 0
NulByte == "~"

HasNonUtf8(s) == \E i \in 1..Len(s) : CharAt(s, i) = NonUtf8Byte

IoErr(kind, msg) == [kind |-> "err", error |-> [kind |-> kind, msg |-> msg]]

Block == [kind |-> "block"]

Panic == [kind |-> "panic"]

\* the index of the first "\r\n" of s, or 0
FindCrlf(s) ==
  LET at == {i \in 1..(Len(s) - 1) : CharAt(s, i) = "\r" /\ CharAt(s, i + 1) = "\n"}
  IN IF at = {} THEN 0 ELSE CHOOSE i \in at : \A j \in at : i <= j

\* the end of the stream reported as a malformed line
ReadLineAtEofAsData(s, eof, i) ==
  IF i = 0
  THEN IF eof THEN IoErr("InvalidData", "Invalid Header") ELSE Block
  ELSE IF HasNonUtf8(SubSeq(s, 1, i - 1))
  THEN IoErr("InvalidInput", "Header is not in ASCII")
  ELSE [kind |-> "ok", line |-> SubSeq(s, 1, i - 1), rest |-> Drop(s, i + 1)]

ReadLineAt(s, eof, i) ==
  IF i = 0
  THEN IF eof THEN IoErr("ConnectionAborted", "Unexpected EOF") ELSE Block
  ELSE IF HasNonUtf8(SubSeq(s, 1, i - 1))
  THEN IoErr("InvalidInput", "Header is not in ASCII")
  ELSE [kind |-> "ok", line |-> SubSeq(s, 1, i - 1), rest |-> Drop(s, i + 1)]

read_next_line(s, eof) == ReadLineAt(s, eof, FindCrlf(s))

\* str::split_whitespace
RECURSIVE SplitWs(_, _, _)
SplitWs(s, word, acc) ==
  IF s = "" THEN IF word = "" THEN acc ELSE Append(acc, word)
  ELSE IF IsWs(CharAt(s, 1))
  THEN SplitWs(Drop(s, 1), "", IF word = "" THEN acc ELSE Append(acc, word))
  ELSE SplitWs(Drop(s, 1), word \o CharAt(s, 1), acc)

split_whitespace(s) == SplitWs(s, "", <<>>)

Methods ==
  {"GET", "HEAD", "POST", "PUT", "DELETE", "CONNECT", "OPTIONS", "TRACE", "PATCH"}

\* Method::from_str
Method_from_str(s) == IF s \in Methods THEN Some(s) ELSE None

parse_http_version(version) ==
  CASE version = "HTTP/0.9" -> Some(<<0, 9>>)
    [] version = "HTTP/1.0" -> Some(<<1, 0>>)
    [] version = "HTTP/1.1" -> Some(<<1, 1>>)
    [] version = "HTTP/2.0" -> Some(<<2, 0>>)
    [] version = "HTTP/3.0" -> Some(<<3, 0>>)
    [] OTHER -> None

\* str::trim
RECURSIVE TrimEnd(_)
TrimEnd(s) ==
  IF s # "" /\ IsWs(CharAt(s, Len(s))) THEN TrimEnd(SubSeq(s, 1, Len(s) - 1)) ELSE s

Trim(s) == TrimEnd(SkipWs(s))

\* the index of the first ':' of s, or 0
FindColon(s) ==
  LET at == {i \in 1..Len(s) : CharAt(s, i) = ":"}
  IN IF at = {} THEN 0 ELSE CHOOSE i \in at : \A j \in at : i <= j

HeaderAt(line, i) ==
  IF i = 0 THEN None
  ELSE Some(Header(Trim(SubSeq(line, 1, i - 1)), Trim(Drop(line, i))))

\* Header::from_str: field and value around the first ':', trimmed
Header_from_str(line) == HeaderAt(line, FindColon(line))

\* the request line as parsed: method, path, version
RequestLine(method, path, version) ==
  [method |-> method, path |-> path, http_version |-> version]

CrDone(rl, headers, body_length, body, rest, remote_addr) ==
  [kind |-> "ok",
   request |-> Request_new(Some(remote_addr), rl.method, rl.path, rl.http_version,
                           headers, body_length, body),
   rest |-> rest]

\* a body that takes every byte received so far
CrReadBodyGreedy(rl, headers, n, s, eof, remote_addr) ==
  IF n = 0 THEN CrDone(rl, headers, 0, None, s, remote_addr)
  ELSE IF Len(s) < n
  THEN IF eof THEN IoErr("UnexpectedEof", "failed to fill whole buffer") ELSE Block
  ELSE IF HasNonUtf8(s)
  THEN IoErr("InvalidData", "body is not in UTF-8")
  ELSE CrDone(rl, headers, n, Some(s), "", remote_addr)

CrReadBody(rl, headers, n, s, eof, remote_addr) ==
  IF n = 0 THEN CrDone(rl, headers, 0, None, s, remote_addr)
  ELSE IF Len(s) < n
  THEN IF eof THEN IoErr("UnexpectedEof", "failed to fill whole buffer") ELSE Block
  ELSE IF HasNonUtf8(SubSeq(s, 1, n))
  THEN IoErr("InvalidData", "body is not in UTF-8")
  ELSE CrDone(rl, headers, n, Some(SubSeq(s, 1, n)), Drop(s, n), remote_addr)

CrBodyLength(rl, headers, len, s, eof, remote_addr) ==
  IF len.some THEN CrReadBody(rl, headers, len.v, s, eof, remote_addr) ELSE Panic

CrContentLength(rl, headers, i, s, eof, remote_addr) ==
  IF i = 0 THEN CrReadBody(rl, headers, 0, s, eof, remote_addr)
  ELSE CrBodyLength(rl, headers, ParseUsize(headers[i].value), s, eof, remote_addr)

RECURSIVE CrHeaders(_, _, _, _, _)
CrHeaderParsed(rl, headers, h, s, eof, remote_addr) ==
  IF h.some THEN CrHeaders(rl, Append(headers, h.v), s, eof, remote_addr)
  ELSE IoErr("InvalidData", "Invalid Header")

CrHeaderLine(rl, headers, l, eof, remote_addr) ==
  IF l.kind # "ok" THEN l
  ELSE IF l.line = ""
  THEN CrContentLength(rl, headers, FindHeader(headers, "Content-Length"), l.rest,
                       eof, remote_addr)
  ELSE CrHeaderParsed(rl, headers, Header_from_str(l.line), l.rest, eof, remote_addr)

CrHeaders(rl, headers, s, eof, remote_addr) ==
  CrHeaderLine(rl, headers, read_next_line(s, eof), eof, remote_addr)

CrVersion(method, path, version, s, eof, remote_addr) ==
  IF version.some
  THEN CrHeaders(RequestLine(method, path, version.v), <<>>, s, eof, remote_addr)
  ELSE IoErr("InvalidInput", "Invalid HTTP version")

CrParts(parts, s, eof, remote_addr) ==
  IF Len(parts) = 0 THEN IoErr("InvalidData", "Invalid Header")
  ELSE IF ~Method_from_str(parts[1]).some THEN IoErr("InvalidData", "Invalid Method")
  ELSE IF Len(parts) < 3 THEN IoErr("InvalidData", "Invalid Http version")
  ELSE CrVersion(parts[1], parts[2], parse_http_version(parts[3]), s, eof, remote_addr)

CrRequestLine(l, eof, remote_addr) ==
  IF l.kind # "ok" THEN l
  ELSE CrParts(split_whitespace(l.line), l.rest, eof, remote_addr)

create_request(s, eof, remote_addr) ==
  CrRequestLine(read_next_line(s, eof), eof, remote_addr)

(***************************************************************************)
(* Response framing (src/http/response.rs)                                 *)
(***************************************************************************)
\* StatusCode::default_reason_phrase
default_reason_phrase(code) ==
  CASE code = 200 -> "OK"
    [] code = 204 -> "No Content"
    [] code = 304 -> "Not Modified"
    [] code = 400 -> "Bad Request"
    [] code = 404 -> "Not Found"
    [] code = 500 -> "Internal Server Error"
    [] OTHER -> "Unknown"

build_date_header(now) == Header("Date", now)

RECURSIVE HeaderLines(_)
HeaderLines(headers) ==
  IF headers = <<>> THEN ""
  ELSE Head(headers).field \o ": " \o Head(headers).value \o "\r\n"
       \o HeaderLines(Tail(headers))

\* the bytes write_message_header writes
write_message_header(http_version, status_code, headers) ==
  "HTTP/" \o ToString(http_version[1]) \o "." \o ToString(http_version[2]) \o " "
  \o ToString(status_code) \o " " \o default_reason_phrase(status_code) \o "\r\n"
  \o HeaderLines(headers) \o "\r\n"

\* a Date header synthesized for every response
WithDateAlways(headers, now) == <<build_date_header(now)>> \o headers

WithDate(headers, now) ==
  IF FindHeader(headers, "Date") = 0 THEN <<build_date_header(now)>> \o headers
  ELSE headers

WithServer(headers) ==
  IF FindHeader(headers, "Server") = 0
  THEN <<Header("Server", "Xml Rpc ArceOS (Rust)")>> \o headers
  ELSE headers

\* the header list raw_print frames
SentHeaders(self, now) ==
  Append(WithServer(WithDate(self.headers, now)),
         Header("Content-Length", ToString(self.data_length)))

BodySuppressed(self, do_not_send_body) ==
  \/ do_not_send_body
  \/ (self.status_code >= 100 /\ self.status_code <= 199)
  \/ self.status_code = 204
  \/ self.status_code = 304

\* Response::raw_print on a writer that accepts everything: the message header
\* written, then the body written
raw_print(self, do_not_send_body, now) ==
  [head |-> write_message_header(<<1, 0>>, self.status_code, SentHeaders(self, now)),
   body |-> IF ~BodySuppressed(self, do_not_send_body) /\ self.data.some
               /\ self.data_length >= 1
            THEN self.data.v ELSE ""]

(***************************************************************************)
(* State                                                                   *)
(***************************************************************************)
VARIABLES
  server,       \* the Server: its handler map and its missing-method handler
  missing_arg,  \* the handler last given to set_on_missing, if any
  reg_via,      \* per registered name, the registration method last used for it
  last,         \* the last dispatch: its input, its result, the calls it made
  tcp_listener, \* BoundServer.tcp_listener: the slot holding the listener
  udp_socket,   \* BoundServer.udp_socket: the slot holding the socket
  main_pc,      \* where the thread that calls run is
  backlog,      \* connections the peers opened that accept has not returned yet
  conn_pc,      \* per connection, where its handle_connection thread is
  inbuf,        \* per connection, the bytes sent by the peer and not read yet
  peer_closed,  \* per connection, whether the peer has closed its end
  cur,          \* per connection, the request or response its thread holds
  log,          \* per connection, what its thread did, in order
  wire,         \* per connection, the bytes written to the stream
  sends,        \* the number of messages the peers have sent
  udp_inq,      \* the datagrams that arrived on the socket and are not received
  udp_pc,       \* where the UDP receive loop is
  udp_cur,      \* the datagram the receive loop is handling
  udp_log,      \* what the receive loop did, in order
  udp_sent,     \* the datagrams the socket has sent
  arrived       \* the datagrams that have arrived on the socket, in order

dispVars == <<server, missing_arg, reg_via, last>>

tcpVars ==
  <<tcp_listener, udp_socket, main_pc, backlog, conn_pc, inbuf, peer_closed, cur,
    log, wire, sends>>

udpVars == <<udp_inq, udp_pc, udp_cur, udp_log, udp_sent, arrived>>

vars == <<dispVars, tcpVars, udpVars>>

MaxConns == 2

Conns == 1..MaxConns

\* no connection, no datagram: the transports before bind
TransportIdle ==
  /\ tcp_listener = None
  /\ udp_socket = None
  /\ main_pc = "unbound"
  /\ backlog = <<>>
  /\ conn_pc = [c \in Conns |-> "none"]
  /\ inbuf = [c \in Conns |-> ""]
  /\ peer_closed = [c \in Conns |-> FALSE]
  /\ cur = [c \in Conns |-> None]
  /\ log = [c \in Conns |-> <<>>]
  /\ wire = [c \in Conns |-> ""]
  /\ sends = 0
  /\ udp_inq = <<>>
  /\ udp_pc = "none"
  /\ udp_cur = None
  /\ udp_log = <<>>
  /\ udp_sent = <<>>
  /\ arrived = <<>>

(***************************************************************************)
(* The dispatcher on its own: a Server is populated by register_value,     *)
(* register, register_simple and set_on_missing, and handle and            *)
(* handle_outer are applied to calls and requests.                         *)
(***************************************************************************)
RegNames == {"calc", "Calc"}

CallNames == {"calc", "Calc", "sub"}

ParamLists == {<<Int32(1), Int32(2)>>, <<Int32(5), Int32(0)>>, <<Str("x")>>}

Calls == {Call(n, p) : n \in CallNames, p \in ParamLists}

\* the calls sent as request bodies
BodyCalls ==
  {Call(n, <<Int32(1), Int32(2)>>) : n \in CallNames}
    \cup {Call("calc", <<Int32(5), Int32(0)>>), Call("calc", <<Str("x")>>)}

\* bodies that are no XML-RPC call: no methodName, an unknown value tag,
\* an unterminated document
MalformedBodies ==
  {"<methodCall><params></params></methodCall>",
   "<methodCall><methodName>calc</methodName><params><param><value><float>1</float></value></param></params></methodCall>",
   "<methodCall><methodName>calc</methodName><params>"}

Bodies ==
  {None} \cup {Some(CallToXml(c)) : c \in BodyCalls} \cup {Some(b) : b \in MalformedBodies}

RequestWith(body) ==
  Request_new(Some("10.0.0.1:4000"), "POST", "/", <<1, 1>>,
              IF body.some THEN <<Header("Content-Length", ToString(Len(body.v)))>>
              ELSE <<>>,
              IF body.some THEN Len(body.v) ELSE 0, body)

EncodeHooks == {"on_encode_fail", "lenient"}

DecodeHooks == {"on_decode_fail", "lenient"}

NoDispatch == [op |-> "none"]

InitDispatch ==
  /\ server = Server_new
  /\ missing_arg = None
  /\ reg_via = <<>>
  /\ last = NoDispatch
  /\ TransportIdle

RegisterValue(name, f) ==
  /\ server' = register_value(server, name, RawClosure(f))
  /\ reg_via' = (name :> "register_value") @@ reg_via
  /\ last' = NoDispatch
  /\ UNCHANGED <<missing_arg, tcpVars, udpVars>>

Register(name, h, ef, df) ==
  /\ server' = register(server, name, h, ef, df)
  /\ reg_via' = (name :> "register") @@ reg_via
  /\ last' = NoDispatch
  /\ UNCHANGED <<missing_arg, tcpVars, udpVars>>

RegisterSimple(name, h) ==
  /\ server' = register_simple(server, name, h)
  /\ reg_via' = (name :> "register_simple") @@ reg_via
  /\ last' = NoDispatch
  /\ UNCHANGED <<missing_arg, tcpVars, udpVars>>

SetOnMissing(f) ==
  /\ server' = set_on_missing(server, RawClosure(f))
  /\ missing_arg' = Some(RawClosure(f))
  /\ last' = NoDispatch
  /\ UNCHANGED <<reg_via, tcpVars, udpVars>>

Handle(call) ==
  /\ LET run == handle(server, call)
     IN last' = [op |-> "handle", call |-> call, res |-> run.res, calls |-> run.calls]
  /\ UNCHANGED <<server, missing_arg, reg_via, tcpVars, udpVars>>

HandleOuter(body) ==
  /\ LET request == RequestWith(body)
         run == handle_outer(server, request)
     IN last' = [op |-> "handle_outer", request |-> request,
                 response |-> run.response, calls |-> run.calls]
  /\ UNCHANGED <<server, missing_arg, reg_via, tcpVars, udpVars>>

NextDispatch ==
  \/ \E name \in RegNames, f \in RawHandlers : RegisterValue(name, f)
  \/ \E name \in RegNames, h \in TypedHandlers, ef \in EncodeHooks, df \in DecodeHooks :
       Register(name, h, ef, df)
  \/ \E name \in RegNames, h \in TypedHandlers : RegisterSimple(name, h)
  \/ \E f \in RawHandlers : SetOnMissing(f)
  \/ \E call \in Calls : Handle(call)
  \/ \E body \in Bodies : HandleOuter(body)

SpecDispatch == InitDispatch /\ [][NextDispatch]_vars

(***************************************************************************)
(* Properties of the dispatcher                                            *)
(***************************************************************************)
Range(f) == {f[x] : x \in DOMAIN f}

Registered(name) == name \in DOMAIN server.handlers

\* C1: handle yields the registered handler (exact, case-sensitive name) applied
\* to the call's params, and for an unregistered name the missing-method handler
\* applied to them: Fault(404, "Requested method does not exist") by default,
\* the handler given to set_on_missing once one was set.
C1_HandleDispatches ==
  last.op = "handle" =>
    IF \E n \in DOMAIN server.handlers : n = last.call.name
    THEN last.res = Invoke(server.handlers[last.call.name], last.call.params).res
    ELSE IF missing_arg.some
         THEN last.res = Invoke(missing_arg.v, last.call.params).res
         ELSE last.res = Fault(404, "Requested method does not exist")

\* a call of "Calc" while "calc" and "Calc" are registered with different handlers
C1_Witness ==
  /\ last.op = "handle"
  /\ last.call.name = "Calc"
  /\ DOMAIN server.handlers = {"calc", "Calc"}
  /\ server.handlers["calc"] # server.handlers["Calc"]
  /\ Invoke(server.handlers["calc"], last.call.params).res # last.res
  /\ missing_arg.some

ContentTypes(response) ==
  {i \in 1..Len(response.headers) : equiv(response.headers[i].field, "Content-Type")}

\* C2: for a request whose body decodes as a Call, handle_outer answers 200 with
\* exactly one Content-Type header, text/xml, the XML encoding of handle's
\* result as body and that body's length as data_length, be the result a
\* Success or a Fault.
C2_DecodedCallGets200 ==
  (last.op = "handle_outer" /\ last.request.body.some
     /\ parse_call(last.request.body.v).some) =>
    LET res == handle(server, parse_call(last.request.body.v).v).res
        r == last.response
    IN /\ r.status_code = 200
       /\ Cardinality(ContentTypes(r)) = 1
       /\ \A i \in ContentTypes(r) : r.headers[i].value = "text/xml"
       /\ r.data = Some(to_xml(res))
       /\ r.data_length = Len(to_xml(res))

\* a request for an unregistered method, answered by the default 404 Fault
C2_Witness ==
  /\ last.op = "handle_outer"
  /\ last.request.body.some
  /\ parse_call(last.request.body.v).some
  /\ ~Registered(parse_call(last.request.body.v).v.name)
  /\ ~missing_arg.some
  /\ last.response.data =
       Some(to_xml(Fault(404, "Requested method does not exist")))
  /\ last.response.status_code = 200

\* C3: for a request without body, or whose body does not decode as a Call,
\* handle_outer answers a bare 400 (no header, no body, data_length 0) and calls
\* no handler.
C3_BadBodyGets400 ==
  (last.op = "handle_outer"
     /\ (~last.request.body.some \/ ~parse_call(last.request.body.v).some)) =>
    /\ last.response =
         [status_code |-> 400, headers |-> <<>>, data |-> None, data_length |-> 0]
    /\ last.calls = <<>>

\* a request whose body is present but is no Call, on a populated registry
C3_Witness ==
  /\ last.op = "handle_outer"
  /\ last.request.body.some
  /\ ~parse_call(last.request.body.v).some
  /\ DOMAIN server.handlers # {}
  /\ last.response.status_code = 400

\* C4: a handler registered in the typed shape yields the decode-failure hook's
\* result when from_params fails (the typed handler is not called), the typed
\* handler's Fault unchanged (no hook is called), the encode-failure hook's
\* result when into_params fails, and Success of the encoded params otherwise;
\* with register_simple the hooks yield Fault(400, "Failed to decode request: ..")
\* and Fault(500, "Failed to encode response: ..").
C4_TypedHandler ==
  (last.op = "handle" /\ Registered(last.call.name)
     /\ server.handlers[last.call.name].kind = "typed") =>
    LET c == server.handlers[last.call.name]
        simple == reg_via[last.call.name] = "register_simple"
        called == Range(last.calls)
        p == from_params(last.call.params)
    IN IF ~p.ok
       THEN /\ last.res = HookApply(c.decode_fail, p.err)
            /\ "handler" \notin called
            /\ simple => last.res = Fault(400, "Failed to decode request: " \o p.err)
       ELSE LET r == TypedApply(c.handler, p.v)
            IN IF ~r.ok
               THEN /\ last.res = r.err
                    /\ called \cap {"decode_fail", "encode_fail"} = {}
               ELSE LET e == into_params(r.v)
                    IN IF ~e.ok
                       THEN /\ last.res = HookApply(c.encode_fail, e.err)
                            /\ simple =>
                                 last.res =
                                   Fault(500, "Failed to encode response: " \o e.err)
                       ELSE last.res = Success(e.v)

\* a register_simple handler whose result into_params cannot encode
C4_Witness ==
  /\ last.op = "handle"
  /\ Registered(last.call.name)
  /\ reg_via[last.call.name] = "register_simple"
  /\ server.handlers[last.call.name].kind = "typed"
  /\ last.calls = <<"from_params", "handler", "into_params", "encode_fail">>
  /\ last.res = Fault(500, "Failed to encode response: i64 is not supported")

(***************************************************************************)
(* The bound server: Server::bind, BoundServer::run, accept_loop_tcp and   *)
(* one handle_connection thread per accepted connection.  The peers open   *)
(* connections, send bytes and close; datagrams arrive on the UDP socket.  *)
(***************************************************************************)
\* the messages and datagrams the peers send, all together
MaxInputs == 2

Now == "Thu, 01 Jan 1970 00:00:00 GMT"

ConnAddr(c) == "10.0.0." \o ToString(c) \o ":4000"

\* the registry the server was bound with
BoundRegistry == register_value(Server_new, "calc", RawClosure("echo"))

\* the closure bind gives to BoundServer::new
handler(request) == handle_outer(server, request).response

Post(body) ==
  "POST / HTTP/1.1\r\nContent-Length: " \o ToString(Len(body)) \o "\r\n\r\n" \o body

MsgCall == Post(CallToXml(Call("calc", <<Int32(1), Int32(2)>>)))

MsgGet == "GET / HTTP/1.1\r\n\r\n"

MsgBadMethod == "BREW / HTTP/1.1\r\n\r\n"

MsgBadLength == "POST / HTTP/1.1\r\nContent-Length: abc\r\n\r\n"

MsgHalf == "POST / HTTP/1.1\r\nContent-Le"

\* what a peer sends in one go: a call, a request without body, a request line
\* with an unknown method, a Content-Length that is no number, the beginning
\* of a request
Messages == {MsgCall, MsgGet, MsgBadMethod, MsgBadLength, MsgHalf}

Peers == {"10.0.1.1:5000", "10.0.1.2:5000"}

DgNoEnd == "GET / HTTP/1.1\r\n"

\* the datagrams: a call, a request without body, an unknown method, a
\* Content-Length that is no number, a request whose header section does not end
Datagrams == {MsgCall, MsgGet, MsgBadMethod, MsgBadLength, DgNoEnd}

Init ==
  /\ server = BoundRegistry
  /\ missing_arg = None
  /\ reg_via = ("calc" :> "register_value")
  /\ last = NoDispatch
  /\ tcp_listener = Some("tcp_listener")
  /\ udp_socket = Some("udp_socket")
  /\ main_pc = "bound"
  /\ backlog = <<>>
  /\ conn_pc = [c \in Conns |-> "none"]
  /\ inbuf = [c \in Conns |-> ""]
  /\ peer_closed = [c \in Conns |-> FALSE]
  /\ cur = [c \in Conns |-> None]
  /\ log = [c \in Conns |-> <<>>]
  /\ wire = [c \in Conns |-> ""]
  /\ sends = 0
  /\ udp_inq = <<>>
  /\ udp_pc = "none"
  /\ udp_cur = None
  /\ udp_log = <<>>
  /\ udp_sent = <<>>
  /\ arrived = <<>>

\* a peer opens a connection: the listener is listening from bind on
PeerConnect(c) ==
  /\ conn_pc[c] = "none"
  /\ \A d \in Conns : d < c => conn_pc[d] # "none"
  /\ conn_pc' = [conn_pc EXCEPT ![c] = "pending"]
  /\ backlog' = Append(backlog, c)
  /\ UNCHANGED <<dispVars, tcp_listener, udp_socket, main_pc, inbuf, peer_closed,
                 cur, log, wire, sends, udpVars>>

\* a peer sends bytes on its connection, before or after it is accepted
PeerSend(c, m) ==
  /\ conn_pc[c] \notin {"none", "closed", "panicked"}
  /\ ~peer_closed[c]
  /\ sends + Len(arrived) < MaxInputs
  /\ inbuf' = [inbuf EXCEPT ![c] = @ \o m]
  /\ sends' = sends + 1
  /\ UNCHANGED <<dispVars, tcp_listener, udp_socket, main_pc, backlog, conn_pc,
                 peer_closed, cur, log, wire, udpVars>>

\* a peer closes its end: the stream ends after the bytes it sent
PeerClose(c) ==
  /\ conn_pc[c] \notin {"none", "closed", "panicked"}
  /\ ~peer_closed[c]
  /\ peer_closed' = [peer_closed EXCEPT ![c] = TRUE]
  /\ UNCHANGED <<dispVars, tcp_listener, udp_socket, main_pc, backlog, conn_pc,
                 inbuf, cur, log, wire, sends, udpVars>>

\* a datagram arrives on the UDP socket, bound from bind on
DatagramArrives(src, data) ==
  /\ sends + Len(arrived) < MaxInputs
  /\ udp_inq' = Append(udp_inq, [src |-> src, data |-> data])
  /\ arrived' = Append(arrived, [src |-> src, data |-> data])
  /\ UNCHANGED <<dispVars, tcpVars, udp_pc, udp_cur, udp_log, udp_sent>>

\* BoundServer::run: the listener is taken out of its slot and given to
\* accept_loop_tcp, whose loop has no exit: the statements of run after that
\* call, which take the UDP socket and call accept_loop_udp, are never reached
Run ==
  /\ main_pc = "bound"
  /\ tcp_listener.some
  /\ tcp_listener' = None
  /\ main_pc' = "accept_loop_tcp"
  /\ UNCHANGED <<dispVars, udp_socket, backlog, conn_pc, inbuf, peer_closed, cur,
                 log, wire, sends, udpVars>>

\* an accept loop that handles each connection before it accepts the next
AcceptSerial(c) ==
  /\ main_pc = "accept_loop_tcp"
  /\ backlog # <<>>
  /\ c = Head(backlog)
  /\ \A d \in Conns : conn_pc[d] \notin {"create_request", "handler", "raw_print"}
  /\ backlog' = Tail(backlog)
  /\ conn_pc' = [conn_pc EXCEPT ![c] = "create_request"]
  /\ UNCHANGED <<dispVars, tcp_listener, udp_socket, main_pc, inbuf, peer_closed,
                 cur, log, wire, sends, udpVars>>

\* accept_loop_tcp: accept returns the oldest connection, a thread is spawned
\* for it, and the loop goes back to accept
Accept(c) ==
  /\ main_pc = "accept_loop_tcp"
  /\ backlog # <<>>
  /\ c = Head(backlog)
  /\ backlog' = Tail(backlog)
  /\ conn_pc' = [conn_pc EXCEPT ![c] = "create_request"]
  /\ UNCHANGED <<dispVars, tcp_listener, udp_socket, main_pc, inbuf, peer_closed,
                 cur, log, wire, sends, udpVars>>

\* a loop that goes on to the next request after a failed read
ConnReadReturnsLenient(c, r) ==
  /\ conn_pc[c] = "create_request"
  /\ r.kind # "block"
  /\ conn_pc' = [conn_pc EXCEPT ![c] =
                   CASE r.kind = "ok" -> "handler"
                     [] r.kind = "err" -> "create_request"
                     [] OTHER -> "panicked"]
  /\ inbuf' = [inbuf EXCEPT ![c] = IF r.kind = "ok" THEN r.rest ELSE ""]
  /\ cur' = [cur EXCEPT ![c] = IF r.kind = "ok" THEN [request |-> r.request] ELSE None]
  /\ log' = [log EXCEPT ![c] =
               Append(@, CASE r.kind = "ok" -> [ev |-> "read", request |-> r.request]
                           [] r.kind = "err" -> [ev |-> "read_err", error |-> r.error]
                           [] OTHER -> [ev |-> "panic"])]
  /\ UNCHANGED <<dispVars, tcp_listener, udp_socket, main_pc, backlog, peer_closed,
                 wire, sends, udpVars>>

\* handle_connection once create_request has returned r.  Ok: the request goes
\* to the handler.  Err: break, the thread ends and the stream is dropped.  A
\* panic ends the thread as well.
ConnReadReturns(c, r) ==
  /\ conn_pc[c] = "create_request"
  /\ r.kind # "block"
  /\ conn_pc' = [conn_pc EXCEPT ![c] =
                   CASE r.kind = "ok" -> "handler"
                     [] r.kind = "err" -> "closed"
                     [] OTHER -> "panicked"]
  /\ inbuf' = [inbuf EXCEPT ![c] = IF r.kind = "ok" THEN r.rest ELSE @]
  /\ cur' = [cur EXCEPT ![c] = IF r.kind = "ok" THEN [request |-> r.request] ELSE None]
  /\ log' = [log EXCEPT ![c] =
               Append(@, CASE r.kind = "ok" -> [ev |-> "read", request |-> r.request]
                           [] r.kind = "err" -> [ev |-> "read_err", error |-> r.error]
                           [] OTHER -> [ev |-> "panic"])]
  /\ UNCHANGED <<dispVars, tcp_listener, udp_socket, main_pc, backlog, peer_closed,
                 wire, sends, udpVars>>

\* handle_connection: create_request on the connection's stream
ConnRead(c) ==
  /\ conn_pc[c] = "create_request"
  /\ \E r \in {create_request(inbuf[c], peer_closed[c], ConnAddr(c))} :
       ConnReadReturns(c, r)

\* a handler call that empties the registry
ConnHandlerReturnsEmptied(c, response) ==
  /\ conn_pc[c] = "handler"
  /\ cur' = [cur EXCEPT ![c] = [response |-> response]]
  /\ log' = [log EXCEPT ![c] = Append(@, [ev |-> "handler", response |-> response])]
  /\ conn_pc' = [conn_pc EXCEPT ![c] = "raw_print"]
  /\ server' = Server_new
  /\ UNCHANGED <<missing_arg, reg_via, last, tcp_listener, udp_socket, main_pc, backlog,
                 inbuf, peer_closed, wire, sends, udpVars>>

\* handle_connection once the handler has returned response
ConnHandlerReturns(c, response) ==
  /\ conn_pc[c] = "handler"
  /\ cur' = [cur EXCEPT ![c] = [response |-> response]]
  /\ log' = [log EXCEPT ![c] = Append(@, [ev |-> "handler", response |-> response])]
  /\ conn_pc' = [conn_pc EXCEPT ![c] = "raw_print"]
  /\ UNCHANGED <<dispVars, tcp_listener, udp_socket, main_pc, backlog, inbuf,
                 peer_closed, wire, sends, udpVars>>

\* handle_connection: the handler is called with the request
ConnHandle(c) ==
  /\ conn_pc[c] = "handler"
  /\ \E response \in {handler(cur[c].request)} : ConnHandlerReturns(c, response)

\* how a write to the stream ends: all written; failed before anything was
\* written; failed between the header and the body
WriteOutcomes == {"ok", "err_head", "err_body"}

Written(framed, outcome) ==
  CASE outcome = "ok" -> framed.head \o framed.body
    [] outcome = "err_head" -> ""
    [] OTHER -> framed.head

\* a loop that sends each response twice
ConnWriteTwice(c, outcome) ==
  /\ conn_pc[c] = "raw_print"
  /\ outcome # "ok" => peer_closed[c]
  /\ LET framed == raw_print(cur[c].response, FALSE, Now)
     IN /\ outcome = "err_body" => framed.body # ""
        /\ wire' = [wire EXCEPT ![c] =
                      @ \o Written(framed, outcome) \o Written(framed, outcome)]
        /\ log' = [log EXCEPT ![c] =
                     Append(@, [ev |-> "write", response |-> cur[c].response,
                                outcome |-> outcome])]
  /\ cur' = [cur EXCEPT ![c] = None]
  /\ conn_pc' = [conn_pc EXCEPT ![c] = "create_request"]
  /\ UNCHANGED <<dispVars, tcp_listener, udp_socket, main_pc, backlog, inbuf,
                 peer_closed, sends, udpVars>>

\* a loop that breaks when raw_print returns an error
ConnWriteBreaks(c, outcome) ==
  /\ conn_pc[c] = "raw_print"
  /\ outcome # "ok" => peer_closed[c]
  /\ LET framed == raw_print(cur[c].response, FALSE, Now)
     IN /\ outcome = "err_body" => framed.body # ""
        /\ wire' = [wire EXCEPT ![c] = @ \o Written(framed, outcome)]
        /\ log' = [log EXCEPT ![c] =
                     Append(@, [ev |-> "write", response |-> cur[c].response,
                                outcome |-> outcome])]
  /\ cur' = [cur EXCEPT ![c] = None]
  /\ conn_pc' = [conn_pc EXCEPT ![c] = IF outcome = "ok" THEN "create_request" ELSE "closed"]
  /\ UNCHANGED <<dispVars, tcp_listener, udp_socket, main_pc, backlog, inbuf,
                 peer_closed, sends, udpVars>>

\* handle_connection: raw_print consumes the response and returns; an error is
\* printed and the loop goes on to the next create_request.  A write can fail
\* once the peer has gone away.
ConnWrite(c, outcome) ==
  /\ conn_pc[c] = "raw_print"
  /\ outcome # "ok" => peer_closed[c]
  /\ LET framed == raw_print(cur[c].response, FALSE, Now)
     IN /\ outcome = "err_body" => framed.body # ""
        /\ wire' = [wire EXCEPT ![c] = @ \o Written(framed, outcome)]
        /\ log' = [log EXCEPT ![c] =
                     Append(@, [ev |-> "write", response |-> cur[c].response,
                                outcome |-> outcome])]
  /\ cur' = [cur EXCEPT ![c] = None]
  /\ conn_pc' = [conn_pc EXCEPT ![c] = "create_request"]
  /\ UNCHANGED <<dispVars, tcp_listener, udp_socket, main_pc, backlog, inbuf,
                 peer_closed, sends, udpVars>>

Next ==
  \/ \E c \in Conns : PeerConnect(c)
  \/ \E c \in Conns, m \in Messages : PeerSend(c, m)
  \/ \E c \in Conns : PeerClose(c)
  \/ \E src \in Peers, data \in Datagrams : DatagramArrives(src, data)
  \/ Run
  \/ \E c \in Conns : Accept(c)
  \/ \E c \in Conns : ConnRead(c)
  \/ \E c \in Conns : ConnHandle(c)
  \/ \E c \in Conns, outcome \in WriteOutcomes : ConnWrite(c, outcome)

Spec == Init /\ [][Next]_vars

\* the thread inside accept_loop_tcp keeps running; the peers and the handlers
\* owe nothing
FairSpec == Spec /\ WF_vars(\E c \in Conns : Accept(c))

(***************************************************************************)
(* accept_loop_udp and handle_udp_message, from the state in which         *)
(* accept_loop_udp is entered with the bound socket.  Datagrams arrive on  *)
(* the socket; the loop receives and handles them.                         *)
(***************************************************************************)
UdpBufSize == 4096

Twice(s) == s \o s

\* n bytes 0
RECURSIVE Nuls(_)
Nuls(n) ==
  IF n = 0 THEN ""
  ELSE IF n % 2 = 0 THEN Twice(Nuls(n \div 2))
  ELSE NulByte \o Nuls(n - 1)

\* a buffer of size bytes 0 after bytes were written at its start: a buffer
\* given to recv_from is not extended, a Cursor over a Vec is
Filled(size, bytes, extends) ==
  IF Len(bytes) >= size
  THEN IF extends THEN bytes ELSE SubSeq(bytes, 1, size)
  ELSE bytes \o Nuls(size - Len(bytes))

\* the peer the UDP socket is connected to: bind binds it and nothing connects it
UdpConnectedTo == None

\* UdpSocket::send: the payload goes to the peer the socket is connected to
udp_send(peer, payload) ==
  IF peer.some THEN Ok([dst |-> peer.v, payload |-> payload])
  ELSE Err("Destination address required")

InitUdp ==
  /\ server = BoundRegistry
  /\ missing_arg = None
  /\ reg_via = ("calc" :> "register_value")
  /\ last = NoDispatch
  /\ tcp_listener = None
  /\ udp_socket = None
  /\ main_pc = "accept_loop_udp"
  /\ backlog = <<>>
  /\ conn_pc = [c \in Conns |-> "none"]
  /\ inbuf = [c \in Conns |-> ""]
  /\ peer_closed = [c \in Conns |-> FALSE]
  /\ cur = [c \in Conns |-> None]
  /\ log = [c \in Conns |-> <<>>]
  /\ wire = [c \in Conns |-> ""]
  /\ sends = 0
  /\ udp_inq = <<>>
  /\ udp_pc = "recv_from"
  /\ udp_cur = None
  /\ udp_log = <<>>
  /\ udp_sent = <<>>
  /\ arrived = <<>>

\* a receive loop that takes the next datagram while one is being handled
UdpRecvConcurrent ==
  /\ main_pc = "accept_loop_udp"
  /\ udp_pc \in {"recv_from", "create_request", "handler", "raw_print"}
  /\ udp_inq # <<>>
  /\ udp_inq' = Tail(udp_inq)
  /\ udp_cur' = Some([src |-> Head(udp_inq).src,
                      buf |-> Filled(UdpBufSize, Head(udp_inq).data, FALSE)])
  /\ udp_log' = Append(udp_log, [ev |-> "recv", src |-> Head(udp_inq).src,
                                 data |-> Head(udp_inq).data])
  /\ udp_pc' = "create_request"
  /\ UNCHANGED <<dispVars, tcpVars, udp_sent, arrived>>

\* accept_loop_udp: recv_from returns the oldest datagram in a buffer of 4096
\* bytes, and handle_udp_message is called with the buffer
UdpRecv ==
  /\ main_pc = "accept_loop_udp"
  /\ udp_pc = "recv_from"
  /\ udp_inq # <<>>
  /\ udp_inq' = Tail(udp_inq)
  /\ udp_cur' = Some([src |-> Head(udp_inq).src,
                      buf |-> Filled(UdpBufSize, Head(udp_inq).data, FALSE)])
  /\ udp_log' = Append(udp_log, [ev |-> "recv", src |-> Head(udp_inq).src,
                                 data |-> Head(udp_inq).data])
  /\ udp_pc' = "create_request"
  /\ UNCHANGED <<dispVars, tcpVars, udp_sent, arrived>>

\* a receive loop that ends on a datagram that is no request
UdpParseReturnsStops(r) ==
  /\ udp_pc = "create_request"
  /\ udp_pc' = CASE r.kind = "ok" -> "handler"
                 [] OTHER -> "panicked"
  /\ udp_cur' = IF r.kind = "ok"
                THEN Some([src |-> udp_cur.v.src, request |-> r.request])
                ELSE None
  /\ udp_log' = Append(udp_log,
                       CASE r.kind = "ok" -> [ev |-> "read", request |-> r.request]
                         [] r.kind = "err" -> [ev |-> "drop", error |-> r.error]
                         [] OTHER -> [ev |-> "panic"])
  /\ UNCHANGED <<dispVars, tcpVars, udp_inq, udp_sent, arrived>>

\* handle_udp_message once create_request has returned r.  Err: the function
\* returns and the loop goes back to recv_from.  A panic ends the loop.
UdpParseReturns(r) ==
  /\ udp_pc = "create_request"
  /\ udp_pc' = CASE r.kind = "ok" -> "handler"
                 [] r.kind = "err" -> "recv_from"
                 [] OTHER -> "panicked"
  /\ udp_cur' = IF r.kind = "ok"
                THEN Some([src |-> udp_cur.v.src, request |-> r.request])
                ELSE None
  /\ udp_log' = Append(udp_log,
                       CASE r.kind = "ok" -> [ev |-> "read", request |-> r.request]
                         [] r.kind = "err" -> [ev |-> "drop", error |-> r.error]
                         [] OTHER -> [ev |-> "panic"])
  /\ UNCHANGED <<dispVars, tcpVars, udp_inq, udp_sent, arrived>>

\* handle_udp_message: create_request on a Cursor over the buffer
UdpParse ==
  /\ udp_pc = "create_request"
  /\ \E r \in {create_request(udp_cur.v.buf, TRUE, udp_cur.v.src)} : UdpParseReturns(r)

\* handle_udp_message once the handler has returned response
UdpHandlerReturns(response) ==
  /\ udp_pc = "handler"
  /\ udp_cur' = Some([src |-> udp_cur.v.src, response |-> response])
  /\ udp_log' = Append(udp_log, [ev |-> "handler", response |-> response])
  /\ udp_pc' = "raw_print"
  /\ UNCHANGED <<dispVars, tcpVars, udp_inq, udp_sent, arrived>>

\* handle_udp_message: the handler is called with the request
UdpHandle ==
  /\ udp_pc = "handler"
  /\ \E response \in {handler(udp_cur.v.request)} : UdpHandlerReturns(response)

\* handle_udp_message once the response is framed into the Cursor's buffer and
\* send was called with that buffer: the function returns and the loop goes
\* back to recv_from
UdpReplyWith(framed, sent) ==
  /\ udp_pc = "raw_print"
  /\ udp_sent' = IF sent.ok THEN Append(udp_sent, sent.v) ELSE udp_sent
  /\ udp_log' = Append(udp_log,
                       [ev |-> IF sent.ok THEN "sent" ELSE "send_err",
                        src |-> udp_cur.v.src,
                        written |-> framed.head \o framed.body])
  /\ udp_cur' = None
  /\ udp_pc' = "recv_from"
  /\ UNCHANGED <<dispVars, tcpVars, udp_inq, arrived>>

\* handle_udp_message: raw_print into a Cursor over 4096 bytes, then send
UdpReply ==
  /\ udp_pc = "raw_print"
  /\ \E framed \in {raw_print(udp_cur.v.response, FALSE, Now)} :
       \E sent \in {udp_send(UdpConnectedTo,
                             Filled(UdpBufSize, framed.head \o framed.body, TRUE))} :
         UdpReplyWith(framed, sent)

NextUdp ==
  \/ \E src \in Peers, data \in Datagrams : DatagramArrives(src, data)
  \/ UdpRecv
  \/ UdpParse
  \/ UdpHandle
  \/ UdpReply

SpecUdp == InitUdp /\ [][NextUdp]_vars

(***************************************************************************)
(* Properties of the TCP path                                              *)
(***************************************************************************)
IsRead(e) == e.ev = "read"

IsWrite(e) == e.ev = "write"

ReadsOf(c) == SelectSeq(log[c], IsRead)

WritesOf(c) == SelectSeq(log[c], IsWrite)

Count(l, n, ev) == Cardinality({j \in 1..n : l[j].ev = ev})

\* the bytes a sequence of writes puts on the stream
RECURSIVE WireOf(_)
WireOf(writes) ==
  IF writes = <<>> THEN ""
  ELSE Written(raw_print(Head(writes).response, FALSE, Now), Head(writes).outcome)
       \o WireOf(Tail(writes))

ConnEnded(c) == conn_pc[c] \in {"closed", "panicked"}

\* C6: a create_request that fails is the last thing a connection's thread
\* does: nothing is written for it, the handler is not called for it, and the
\* thread reads, handles and writes nothing afterwards.
C6_ReadFailureEndsConnection ==
  \A c \in Conns :
    LET l == log[c]
    IN /\ \A i \in 1..Len(l) :
            l[i].ev \in {"read_err", "panic"} => (i = Len(l) /\ ConnEnded(c))
       /\ ConnEnded(c) =>
            /\ l # <<>>
            /\ l[Len(l)].ev \in {"read_err", "panic"}
            /\ Count(l, Len(l), "handler") = Count(l, Len(l), "read")
            /\ Count(l, Len(l), "write") = Count(l, Len(l), "read")
            /\ wire[c] = WireOf(WritesOf(c))
            /\ cur[c] = None
            /\ ~ENABLED ConnRead(c)
            /\ ~ENABLED ConnHandle(c)
            /\ ~ENABLED (\E outcome \in WriteOutcomes : ConnWrite(c, outcome))

\* a request with an unknown method followed by a well-formed request: the
\* thread ended on the first, the second was never read
C6_Witness ==
  /\ conn_pc[1] = "closed"
  /\ log[1] = <<[ev |-> "read_err",
                 error |-> [kind |-> "InvalidData", msg |-> "Invalid Method"]]>>
  /\ inbuf[1] = MsgBadMethod \o MsgGet
  /\ wire[1] = ""

\* C7: whether the accept loop can accept, and whether a connection's thread
\* can take its next step, depends on nothing but the backlog and that
\* connection's own stream: whatever the other connections are doing, a
\* waiting connection can be accepted and a connection whose request has
\* arrived can be read, handled and answered.
C7_ConnectionsIndependent ==
  \A d \in Conns :
    /\ (main_pc = "accept_loop_tcp" /\ backlog # <<>> /\ Head(backlog) = d) =>
         ENABLED Accept(d)
    /\ conn_pc[d] = "create_request" =>
         \E r \in {create_request(inbuf[d], peer_closed[d], ConnAddr(d))} :
           r.kind # "block" => ENABLED ConnReadReturns(d, r)
    /\ conn_pc[d] = "handler" =>
         \E response \in {handler(cur[d].request)} :
           ENABLED ConnHandlerReturns(d, response)
    /\ conn_pc[d] = "raw_print" => ENABLED ConnWrite(d, "ok")

\* connection 1, accepted first, is still inside its handler; connection 2 has
\* been accepted, read, handled and answered
C7_Witness ==
  /\ conn_pc[1] = "handler"
  /\ Len(log[1]) = 1
  /\ conn_pc[2] = "create_request"
  /\ Len(log[2]) = 3
  /\ log[2][3].ev = "write"
  /\ wire[2] # ""

\* C8: once run has been called, a datagram waiting on the UDP socket is
\* eventually received by the receive loop, and a waiting connection is
\* eventually accepted.
C8_RunStartsBothLoops ==
  /\ (main_pc # "bound" /\ udp_inq # <<>>) ~> (udp_log # <<>>)
  /\ \A c \in Conns : (main_pc # "bound" /\ conn_pc[c] = "pending") ~> (conn_pc[c] # "pending")

\* the part of C8 that the code provides: a waiting connection is eventually
\* accepted
C8_TcpAccepted ==
  \A c \in Conns : (main_pc # "bound" /\ conn_pc[c] = "pending") ~> (conn_pc[c] # "pending")

(***************************************************************************)
(* Properties of the UDP path                                              *)
(***************************************************************************)
IsReply(e) == e.ev \in {"sent", "send_err"}

IsRecv(e) == e.ev = "recv"

RepliesOf(l) == SelectSeq(l, IsReply)

RecvsOf(l) == SelectSeq(l, IsRecv)

\* the events that end the handling of a datagram
UdpEnds == {"drop", "sent", "send_err", "panic"}

\* C9: for every datagram that was read as a request and handled, the socket
\* has sent exactly one reply, to the address the datagram came from.
C9_ReplyToSource ==
  LET replies == RepliesOf(udp_log)
  IN /\ Len(udp_sent) = Len(replies)
     /\ \A k \in 1..Len(replies) :
          k <= Len(udp_sent) /\ udp_sent[k].dst = replies[k].src

\* what the code does for such a datagram: send fails on the unconnected
\* socket, and no datagram leaves the server
C9_NoReplyLeaves ==
  /\ udp_sent = <<>>
  /\ \A i \in 1..Len(udp_log) : udp_log[i].ev # "sent"

\* C10: the receive loop takes the datagrams in the order they arrived, a
\* datagram is received only when the handling of the one before it has ended
\* (reply attempted or datagram dropped), at most one datagram is being
\* handled, and nothing is received while a handler has not returned.
C10_OneDatagramAtATime ==
  LET recvs == RecvsOf(udp_log)
      taken == [k \in 1..Len(recvs) |-> [src |-> recvs[k].src, data |-> recvs[k].data]]
  IN /\ taken \o udp_inq = arrived
     /\ \A i \in 2..Len(udp_log) :
          udp_log[i].ev = "recv" => udp_log[i - 1].ev \in UdpEnds \ {"panic"}
     /\ Count(udp_log, Len(udp_log), "recv")
          - Cardinality({j \in 1..Len(udp_log) : udp_log[j].ev \in UdpEnds}) \in {0, 1}
     /\ udp_pc # "recv_from" => ~ENABLED UdpRecv

\* two datagrams from two peers: the second was received after the reply to
\* the first was attempted
C10_Witness ==
  /\ Len(arrived) = 2
  /\ arrived[1].src # arrived[2].src
  /\ Len(udp_log) = 5
  /\ udp_log[1].ev = "recv"
  /\ udp_log[1].src = arrived[1].src
  /\ udp_log[4].ev = "send_err"
  /\ udp_log[5].ev = "recv"
  /\ udp_log[5].src = arrived[2].src

(***************************************************************************)
(* The XML codec on its own: a Response or a Call is encoded, and the text *)
(* is decoded.                                                             *)
(***************************************************************************)
\* the Values encoded: every variant, texts that are empty, hold markup
\* characters or blanks, Arrays and Structs empty and nested
CodecValues ==
  <<Str("South Dakota"), Str(""), Str("a<b&c>d"), Str(" x "),
    Int32(-33), Int32(0), Int32(2147483647),
    Bool(TRUE), Bool(FALSE),
    Double(TRUE, 442, 1), Double(FALSE, 0, 0), Double(FALSE, 5, 3),
    Double(FALSE, 1200, 0), DoubleNaN,
    DateTime("33"), Base64("ASDF="),
    Array(<<Int32(33), Int32(-12), Int32(44)>>), Array(<<>>),
    Array(<<Array(<<Str("x")>>), Bool(TRUE)>>), Array(<<DoubleNaN>>),
    Struct([foo |-> Int32(42), bar |-> Str("baz")]), Struct(<<>>),
    Struct([a |-> Array(<<Int32(1)>>), b |-> Struct([c |-> Double(TRUE, 442, 1)])])>>

CodecParams ==
  {<<>>} \cup {<<CodecValues[i]>> : i \in 1..Len(CodecValues)}
    \cup {<<CodecValues[i], CodecValues[i + 1]>> : i \in 1..(Len(CodecValues) - 1)}

CodecNames == {"foobar", "a.b<c"}

CodecFaults ==
  {Fault(4, "Too many parameters."), Fault(-1, ""), Fault(404, "a<b&c")}

InitCodec ==
  /\ server = Server_new
  /\ missing_arg = None
  /\ reg_via = <<>>
  /\ last = NoDispatch
  /\ TransportIdle

\* format!("{}", response) for a Fault
EncodeFault(res) ==
  /\ last' = [op |-> "encoded", kind |-> "response", res |-> res, text |-> to_xml(res)]
  /\ UNCHANGED <<server, missing_arg, reg_via, tcpVars, udpVars>>

\* format!("{}", response) for a Success
EncodeSuccess(params) ==
  /\ LET res == Success(params)
     IN last' = [op |-> "encoded", kind |-> "response", res |-> res,
                 text |-> to_xml(res)]
  /\ UNCHANGED <<server, missing_arg, reg_via, tcpVars, udpVars>>

\* format!("{}", call)
EncodeCall(name, params) ==
  /\ LET call == Call(name, params)
     IN last' = [op |-> "encoded", kind |-> "call", call |-> call,
                 text |-> CallToXml(call)]
  /\ UNCHANGED <<server, missing_arg, reg_via, tcpVars, udpVars>>

\* parse::response on the text of an encoded response
DecodeResponse ==
  /\ last.op = "encoded"
  /\ last.kind = "response"
  /\ last' = [op |-> "decoded", kind |-> "response", res |-> last.res,
              text |-> last.text, out |-> parse_response(last.text)]
  /\ UNCHANGED <<server, missing_arg, reg_via, tcpVars, udpVars>>

\* parse::call on the text of an encoded call
DecodeCall ==
  /\ last.op = "encoded"
  /\ last.kind = "call"
  /\ last' = [op |-> "decoded", kind |-> "call", call |-> last.call,
              text |-> last.text, out |-> parse_call(last.text)]
  /\ UNCHANGED <<server, missing_arg, reg_via, tcpVars, udpVars>>

NextCodec ==
  \/ \E ps \in CodecParams : EncodeSuccess(ps)
  \/ \E f \in CodecFaults : EncodeFault(f)
  \/ \E n \in CodecNames, ps \in CodecParams : EncodeCall(n, ps)
  \/ DecodeResponse
  \/ DecodeCall

SpecCodec == InitCodec /\ [][NextCodec]_vars

(***************************************************************************)
(* Properties of the codec                                                 *)
(***************************************************************************)
RECURSIVE HasNaN(_)
HasNaN(v) ==
  CASE v.t = "Double" -> v.nan
    [] v.t = "Array" -> \E i \in 1..Len(v.items) : HasNaN(v.items[i])
    [] v.t = "Struct" -> \E n \in DOMAIN v.members : HasNaN(v.members[n])
    [] OTHER -> FALSE

ParamsHaveNaN(ps) == \E i \in 1..Len(ps) : HasNaN(ps[i])

ResponseEq(a, b) ==
  /\ a.ok = b.ok
  /\ IF a.ok THEN ParamsEq(a.params, b.params)
     ELSE a.code = b.code /\ a.message = b.message

CallEq(a, b) == a.name = b.name /\ ParamsEq(a.params, b.params)

\* what was encoded and decoded holds a NaN
SourceHasNaN ==
  IF last.kind = "call" THEN ParamsHaveNaN(last.call.params)
  ELSE last.res.ok /\ ParamsHaveNaN(last.res.params)

RoundTrips ==
  /\ last.out.some
  /\ IF last.kind = "call" THEN CallEq(last.out.v, last.call)
     ELSE ResponseEq(last.out.v, last.res)

MaxHeaders == 2

\* first lines: accepted ones, one with a fourth token, an unknown method, a
\* missing version, an unknown version, an empty line, a line cut short
FrRequestLines ==
  {"POST / HTTP/1.1\r\n", "HEAD /c  HTTP/3.0\r\n", "GET /a HTTP/1.0 extra\r\n",
   "BREW / HTTP/1.1\r\n", "POST /\r\n", "PUT /b HTTP/9.9\r\n", "\r\n",
   "POST / HT"}

\* header lines: lengths in three letter cases, a length that is no number, another
\* header, a line without colon, a line that is not UTF-8, a line cut short
FrHeaderLines ==
  {"Content-Length: 3\r\n", "content-length: 0\r\n", "CONTENT-LENGTH:2\r\n",
   "Content-Length: abc\r\n", "Host: x\r\n", "nocolon\r\n", "X-Bin: ^\r\n",
   "Content-Le"}

FrBodies == {"abc", "abcd", "a^cd", "a"}

FrAddr == "10.0.0.1:4000"

FrStream(phase, s, nh) == [op |-> "stream", phase |-> phase, s |-> s, nh |-> nh]

InitFraming ==
  /\ server = Server_new
  /\ missing_arg = None
  /\ reg_via = <<>>
  /\ last = FrStream("line", "", 0)
  /\ TransportIdle

\* the peer writes the first line
FrSendLine(l) ==
  /\ last.op = "stream"
  /\ last.phase = "line"
  /\ last' = FrStream("headers", last.s \o l, 0)
  /\ UNCHANGED <<server, missing_arg, reg_via, tcpVars, udpVars>>

\* the peer writes a header line
FrSendHeader(h) ==
  /\ last.op = "stream"
  /\ last.phase = "headers"
  /\ last.nh < MaxHeaders
  /\ last' = FrStream("headers", last.s \o h, last.nh + 1)
  /\ UNCHANGED <<server, missing_arg, reg_via, tcpVars, udpVars>>

\* the peer writes the blank line
FrSendBlank ==
  /\ last.op = "stream"
  /\ last.phase = "headers"
  /\ last' = FrStream("body", last.s \o "\r\n", last.nh)
  /\ UNCHANGED <<server, missing_arg, reg_via, tcpVars, udpVars>>

\* the peer writes bytes after the blank line
FrSendBody(b) ==
  /\ last.op = "stream"
  /\ last.phase = "body"
  /\ last' = FrStream("sent", last.s \o b, last.nh)
  /\ UNCHANGED <<server, missing_arg, reg_via, tcpVars, udpVars>>

\* create_request on the bytes written so far
FrCreateRequest(eof) ==
  /\ last.op = "stream"
  /\ last' = [op |-> "create_request", s |-> last.s, eof |-> eof,
              r |-> create_request(last.s, eof, FrAddr)]
  /\ UNCHANGED <<server, missing_arg, reg_via, tcpVars, udpVars>>

NextFraming ==
  \/ \E l \in FrRequestLines : FrSendLine(l)
  \/ \E h \in FrHeaderLines : FrSendHeader(h)
  \/ FrSendBlank
  \/ \E b \in FrBodies : FrSendBody(b)
  \/ \E eof \in BOOLEAN : FrCreateRequest(eof)

SpecFraming == InitFraming /\ [][NextFraming]_vars

\* the index of the last byte of the first "\r\n\r\n" of s, or 0
HeadEnd(s) ==
  LET at == {i \in 1..(Len(s) - 3) : SubSeq(s, i, i + 3) = "\r\n\r\n"}
  IN IF at = {} THEN 0 ELSE 3 + CHOOSE i \in at : \A j \in at : i <= j

FrReturned == last.op = "create_request" /\ last.r.kind = "ok"

\* C12: in every Request create_request returns, body_length is the unsigned value
\* of the first header equivalent to Content-Length and 0 without one; the body is
\* present exactly when body_length > 0 and is then the body_length bytes that
\* follow the blank line; the bytes left in the stream are those after the body.
C12_BodyFraming ==
  FrReturned =>
    LET req == last.r.request
        k == HeadEnd(last.s)
        i == FindHeader(req.headers, "Content-Length")
    IN /\ k > 0
       /\ i = 0 => req.body_length = 0
       /\ i # 0 => /\ ParseUsize(req.headers[i].value).some
                   /\ ParseUsize(req.headers[i].value).v = req.body_length
       /\ req.body.some <=> req.body_length > 0
       /\ req.body.some => /\ Len(req.body.v) = req.body_length
                           /\ req.body.v = SubSeq(last.s, k + 1, k + req.body_length)
       /\ last.r.rest = Drop(last.s, k + req.body_length)

\* a request with a lower-case length of 3 after another header, and a fourth byte
\* sent after the body
C12_Witness ==
  /\ FrReturned
  /\ Len(last.r.request.headers) = 2
  /\ last.r.request.headers[2].field = "Content-Length"
  /\ last.r.request.body_length = 3
  /\ last.r.request.body = Some("abc")
  /\ last.r.rest = "d"

\* the lines of s that are terminated by "\r\n", in order
RECURSIVE CompleteLines(_)
CompleteLines(s) ==
  IF FindCrlf(s) = 0 THEN <<>>
  ELSE <<SubSeq(s, 1, FindCrlf(s) - 1)>> \o CompleteLines(Drop(s, FindCrlf(s) + 1))

\* the n-th line of a request is one create_request reads without an error
LineWellFormed(n, line) ==
  /\ ~HasNonUtf8(line)
  /\ IF n = 1
     THEN /\ Len(split_whitespace(line)) >= 3
          /\ split_whitespace(line)[1] \in Methods
          /\ parse_http_version(split_whitespace(line)[3]).some
     ELSE FindColon(line) # 0

LinesWellFormed(s) ==
  \A n \in 1..Len(CompleteLines(s)) : LineWellFormed(n, CompleteLines(s)[n])

\* create_request was applied to a stream that ended before a blank line
FrEndedEarly == last.op = "create_request" /\ last.eof /\ HeadEnd(last.s) = 0

FrFailedWith(kind, msg) ==
  /\ last.r.kind = "err"
  /\ last.r.error.kind = kind
  /\ last.r.error.msg = msg

\* C13: on every stream that ends before the blank line of the header block,
\* create_request fails with (ConnectionAborted, "Unexpected EOF").
C13_EofBeforeBlankLine ==
  FrEndedEarly => FrFailedWith("ConnectionAborted", "Unexpected EOF")

\* C13, for streams whose complete lines are well-formed: on a stream that ends
\* before the blank line of the header block, create_request fails; the failure is
\* (ConnectionAborted, "Unexpected EOF") exactly when every complete line read
\* before the end is well-formed, and no other failure has the kind
\* ConnectionAborted: a line that is not UTF-8 fails with InvalidInput.
C13_EofWhenLinesWellFormed ==
  FrEndedEarly =>
    /\ last.r.kind = "err"
    /\ FrFailedWith("ConnectionAborted", "Unexpected EOF") <=> LinesWellFormed(last.s)
    /\ last.r.error.kind = "ConnectionAborted" <=> last.r.error.msg = "Unexpected EOF"
    /\ last.r.error.msg = "Header is not in ASCII" => last.r.error.kind = "InvalidInput"

\* the stream ends inside the second header line, after two well-formed lines
C13_Witness ==
  /\ FrEndedEarly
  /\ Len(CompleteLines(last.s)) = 2
  /\ LinesWellFormed(last.s)
  /\ last.s # "" /\ FindCrlf(SubSeq(last.s, Len(last.s) - 1, Len(last.s))) = 0
  /\ FrFailedWith("ConnectionAborted", "Unexpected EOF")

\* the tokens of the request line of the stream
FrRequestLineTokens == split_whitespace(CompleteLines(last.s)[1])

\* C14: create_request returns a Request only if the request line splits on
\* whitespace into exactly three tokens, the first a method of the fixed set and the
\* third one of the five versions.
C14_ExactlyThreeTokens ==
  FrReturned =>
    /\ Len(FrRequestLineTokens) = 3
    /\ FrRequestLineTokens[1] \in Methods
    /\ parse_http_version(FrRequestLineTokens[3]).some

\* C14, as the code has it: a returned Request had a request line of three tokens
\* or more, the first a known method, the third a known version; an unknown method
\* fails with "Invalid Method" whatever follows it.
C14_AtLeastThreeTokens ==
  /\ FrReturned =>
       /\ Len(FrRequestLineTokens) >= 3
       /\ FrRequestLineTokens[1] \in Methods
       /\ parse_http_version(FrRequestLineTokens[3]).some
  /\ ( /\ last.op = "create_request"
       /\ Len(CompleteLines(last.s)) >= 1
       /\ ~HasNonUtf8(CompleteLines(last.s)[1])
       /\ Len(FrRequestLineTokens) >= 1
       /\ FrRequestLineTokens[1] \notin Methods )
     => FrFailedWith("InvalidData", "Invalid Method")

\* a Request returned for a request line of four tokens
C14_FourTokensAccepted ==
  /\ FrReturned
  /\ Len(FrRequestLineTokens) = 4
  /\ last.r.request.method = "GET"
  /\ last.r.request.http_version = <<1, 0>>

\* C15: no datagram stops the receive loop: whatever the datagrams received so far
\* held, accept_loop_udp is still running, at recv_from or handling a datagram.
C15_ReceiveLoopSurvives ==
  main_pc = "accept_loop_udp" =>
    udp_pc \in {"recv_from", "create_request", "handler", "raw_print"}

\* the receive loop has ended on a datagram while another datagram waits
C15_LoopEndedDatagramWaiting ==
  /\ udp_pc = "panicked"
  /\ udp_log[Len(udp_log)].ev = "panic"
  /\ udp_inq # <<>>

(***************************************************************************)
(* The Response on its own: a Response is built with new, changed with     *)
(* add_header, with_header, with_status_code and with_data, and then sent  *)
(* with raw_print.                                                         *)
(***************************************************************************)
MaxOps == 2

RespStatusCodes == {100, 204, 304, 404}

\* header lists given to Response::new
RespInitHeaders ==
  {<<>>,
   <<Header("Content-Type", "text/xml"), Header("connection", "close"),
     Header("Content-Length", "5")>>,
   <<Header("content-length", "abc"), Header("Content-Type", "a/b"),
     Header("CONTENT-TYPE", "c/d")>>,
   <<Header("Content-Length", "5"), Header("Trailer", "X"),
     Header("content-length", "9"), Header("X-A", "1")>>}

\* data and data_length as given to new and to with_data: equal, and unequal
RespData ==
  {[data |-> None, len |-> 0], [data |-> Some("abc"), len |-> 3],
   [data |-> Some("abc"), len |-> 5], [data |-> Some("abc"), len |-> 0]}

\* headers given to add_header
RespHeaders ==
  {Header("Content-Type", "text/plain"), Header("content-type", "a/b"),
   Header("Content-Length", "7"), Header("CONTENT-LENGTH", "abc"),
   Header("Connection", "close"), Header("UPGRADE", "h2c"),
   Header("transfer-encoding", "chunked"), Header("Trailer", "X"),
   Header("X-A", "1"), Header("date", "Fri, 02 Jan 1970 00:00:00 GMT"),
   Header("Server", "mine")}

\* headers given to with_header
RespWithHeaders ==
  {Header("content-type", "a/b"), Header("content-length", "0"),
   Header("Transfer-Encoding", "chunked"), Header("X-A", "1")}

NoOutput == [head |-> "", body |-> ""]

RespState(op, n, resp, prev, hs, dnsb, out) ==
  [op |-> op, n |-> n, resp |-> resp, prev |-> prev, hs |-> hs, dnsb |-> dnsb,
   out |-> out]

\* Response::new(StatusCode(200), vec![], None, 0)
InitResponse ==
  /\ server = Server_new
  /\ missing_arg = None
  /\ reg_via = <<>>
  /\ last = RespState("new", 0, Response_new(200, <<>>, None, 0),
                      Response_new(200, <<>>, None, 0), <<>>, FALSE, NoOutput)
  /\ TransportIdle

\* Response::new
RespNew(status_code, hs, d) ==
  /\ last.op = "new"
  /\ last.n = 0
  /\ LET r == Response_new(status_code, hs, d.data, d.len)
     IN last' = RespState("new", 1, r, r, hs, FALSE, NoOutput)
  /\ UNCHANGED <<server, missing_arg, reg_via, tcpVars, udpVars>>

RespOpen == last.op # "raw_print" /\ last.n >= 1 /\ last.n <= MaxOps

\* response.add_header(h)
RespAddHeader(h) ==
  /\ RespOpen
  /\ last' = RespState("add_header", last.n + 1, add_header(last.resp, h), last.resp,
                       <<h>>, FALSE, NoOutput)
  /\ UNCHANGED <<server, missing_arg, reg_via, tcpVars, udpVars>>

\* response.with_header(h)
RespWithHeader(h) ==
  /\ RespOpen
  /\ last' = RespState("with_header", last.n + 1, with_header(last.resp, h),
                       last.resp, <<h>>, FALSE, NoOutput)
  /\ UNCHANGED <<server, missing_arg, reg_via, tcpVars, udpVars>>

\* response.with_status_code(code)
RespWithStatusCode(code) ==
  /\ RespOpen
  /\ last' = RespState("with_status_code", last.n + 1,
                       with_status_code(last.resp, code), last.resp, <<>>, FALSE,
                       NoOutput)
  /\ UNCHANGED <<server, missing_arg, reg_via, tcpVars, udpVars>>

\* response.with_data(data, data_length)
RespWithData(d) ==
  /\ RespOpen
  /\ last' = RespState("with_data", last.n + 1, with_data(last.resp, d.data, d.len),
                       last.resp, <<>>, FALSE, NoOutput)
  /\ UNCHANGED <<server, missing_arg, reg_via, tcpVars, udpVars>>

\* response.raw_print(writer, do_not_send_body) on a writer that takes every byte
RespRawPrint(do_not_send_body) ==
  /\ last.op # "raw_print"
  /\ last.n >= 1
  /\ last' = RespState("raw_print", last.n, last.resp, last.resp, <<>>,
                       do_not_send_body, raw_print(last.resp, do_not_send_body, Now))
  /\ UNCHANGED <<server, missing_arg, reg_via, tcpVars, udpVars>>

NextResponse ==
  \/ \E sc \in {200, 204}, hs \in RespInitHeaders, d \in RespData : RespNew(sc, hs, d)
  \/ \E h \in RespHeaders : RespAddHeader(h)
  \/ \E h \in RespWithHeaders : RespWithHeader(h)
  \/ \E sc \in RespStatusCodes : RespWithStatusCode(sc)
  \/ \E d \in RespData : RespWithData(d)
  \/ \E b \in BOOLEAN : RespRawPrint(b)

SpecResponse == InitResponse /\ [][NextResponse]_vars

\* the header lines of a framed message, as field and value: the lines between the
\* status line and the blank line
RECURSIVE LinesToHeaders(_)
LinesToHeaders(lines) ==
  IF lines = <<>> \/ Head(lines) = "" THEN <<>>
  ELSE <<Header_from_str(Head(lines)).v>> \o LinesToHeaders(Tail(lines))

FramedHeaders(head) == LinesToHeaders(Tail(CompleteLines(head)))

\* the indices of the headers equivalent to name
HeadersNamed(headers, name) == {i \in 1..Len(headers) : equiv(headers[i].field, name)}

RespSent == last.op = "raw_print"

RespHeaderAdded == last.op \in {"add_header", "with_header"}

\* C16: the output of raw_print holds exactly one Content-Length header, whose value
\* is the data_length of the response sent; add_header and with_header given a
\* Content-Length leave the header list, the status and the data as they were, and
\* set data_length to the value when it parses as an unsigned integer.
C16_OneContentLength ==
  /\ RespSent =>
       LET hs == FramedHeaders(last.out.head)
       IN /\ Cardinality(HeadersNamed(hs, "Content-Length")) = 1
          /\ \A i \in HeadersNamed(hs, "Content-Length") :
               /\ ParseUsize(hs[i].value).some
               /\ ParseUsize(hs[i].value).v = last.resp.data_length
  /\ (RespHeaderAdded /\ equiv(last.hs[1].field, "Content-Length")) =>
       /\ last.resp.headers = last.prev.headers
       /\ last.resp.status_code = last.prev.status_code
       /\ last.resp.data = last.prev.data
       /\ last.resp.data_length =
            IF ParseUsize(last.hs[1].value).some THEN ParseUsize(last.hs[1].value).v
            ELSE last.prev.data_length

\* a response sent after add_header was given Content-Length: 7
C16_Witness ==
  /\ RespSent
  /\ last.resp.data_length = 7
  /\ HeadersNamed(last.resp.headers, "Content-Length") = {}
  /\ Cardinality(HeadersNamed(FramedHeaders(last.out.head), "Content-Length")) = 1

\* the value of the Content-Length header of the output of raw_print
FramedContentLength ==
  LET hs == FramedHeaders(last.out.head)
  IN ParseUsize(hs[CHOOSE i \in HeadersNamed(hs, "Content-Length") : TRUE].value).v

\* C17: in every output of raw_print the value of the Content-Length header is the
\* number of body bytes written after the blank line, 0 when none is written.
C17_LengthIsBytesWritten == RespSent => FramedContentLength = Len(last.out.body)

\* a response with status 204 sent with Content-Length: 3 and no body
C17_LengthWithoutBody ==
  /\ RespSent
  /\ last.resp.status_code = 204
  /\ last.resp.data = Some("abc")
  /\ FramedContentLength = 3
  /\ last.out.body = ""

\* a response sent with Content-Length: 5 and a body of three bytes
C17_LengthBeyondBody ==
  /\ RespSent
  /\ last.resp.status_code = 200
  /\ ~last.dnsb
  /\ FramedContentLength = 5
  /\ last.out.body = "abc"

\* a field add_header drops
IsForbidden(field) ==
  \/ equiv(field, "Connection")
  \/ equiv(field, "Trailer")
  \/ equiv(field, "Transfer-Encoding")
  \/ equiv(field, "Upgrade")

\* a field add_header treats like any other
IsPlain(field) ==
  /\ ~IsForbidden(field)
  /\ ~equiv(field, "Content-Length")
  /\ ~equiv(field, "Content-Type")

\* C18: add_header given a Content-Type, in any letter case: when the response has
\* a Content-Type header its value is replaced, the number of headers and every
\* other header stay; otherwise the header is appended; afterwards the response
\* has exactly one Content-Type header, with the value given.  A header with a
\* plain name is appended, whether or not the name is there already.
C18_ContentTypeInPlace ==
  /\ Cardinality(HeadersNamed(last.resp.headers, "Content-Type")) <= 1
  /\ (RespHeaderAdded /\ equiv(last.hs[1].field, "Content-Type")) =>
       LET old == last.prev.headers
           new == last.resp.headers
           at == HeadersNamed(old, "Content-Type")
       IN /\ at # {} =>
               /\ Len(new) = Len(old)
               /\ \A i \in 1..Len(old) :
                    /\ new[i].field = old[i].field
                    /\ new[i].value = IF i \in at THEN last.hs[1].value ELSE old[i].value
          /\ at = {} => new = Append(old, last.hs[1])
          /\ Cardinality(HeadersNamed(new, "Content-Type")) = 1
          /\ \A i \in HeadersNamed(new, "Content-Type") : new[i].value = last.hs[1].value
  /\ (RespHeaderAdded /\ IsPlain(last.hs[1].field)) =>
       last.resp.headers = Append(last.prev.headers, last.hs[1])

\* a Content-Type in lower case replaces the value of the first of two headers
C18_Witness ==
  /\ last.op = "add_header"
  /\ last.hs[1] = Header("content-type", "a/b")
  /\ last.prev.headers = <<Header("Content-Type", "text/xml"), Header("X-A", "1")>>
  /\ last.resp.headers = <<Header("Content-Type", "a/b"), Header("X-A", "1")>>

\* a plain name set twice is there twice
C18_PlainRepeats ==
  /\ RespHeaderAdded
  /\ last.resp.headers = <<Header("X-A", "1"), Header("X-A", "1")>>

NotForbidden(header) == ~IsForbidden(header.field)

\* C19: add_header and with_header given Connection, Trailer, Transfer-Encoding or
\* Upgrade, in any letter case, leave the response as it was: headers, status, data
\* and data_length; Response::new builds the response it builds without these
\* headers; no response holds such a header and no output of raw_print shows one.
C19_ForbiddenIgnored ==
  /\ \A i \in 1..Len(last.resp.headers) : NotForbidden(last.resp.headers[i])
  /\ (RespHeaderAdded /\ IsForbidden(last.hs[1].field)) => last.resp = last.prev
  /\ (last.op = "new" /\ last.n = 1) =>
       last.resp = AddHeaders([last.resp EXCEPT !.headers = <<>>],
                              SelectSeq(last.hs, NotForbidden))
  /\ RespSent =>
       \A i \in 1..Len(FramedHeaders(last.out.head)) :
         NotForbidden(FramedHeaders(last.out.head)[i])

\* with_header given Transfer-Encoding on a response that has a header and data
C19_Witness ==
  /\ last.op = "with_header"
  /\ last.hs[1] = Header("Transfer-Encoding", "chunked")
  /\ Len(last.prev.headers) >= 1
  /\ last.prev.data = Some("abc")
  /\ last.resp = last.prev

\* Response::new given a list that holds a Connection header
C19_NewDrops ==
  /\ last.op = "new"
  /\ Len(last.hs) = 3
  /\ last.resp.headers = <<Header("Content-Type", "text/xml")>>

\* the status codes and the flag for which raw_print sends no body
SendsNoBody ==
  \/ last.dnsb
  \/ last.resp.status_code \in 100..199
  \/ last.resp.status_code \in {204, 304}

\* C20: raw_print writes no body byte when the status is 1xx, 204 or 304 or
\* do_not_send_body is true; in every other case with data present the body bytes
\* written are the data.
C20_BodyIsData ==
  RespSent =>
    /\ SendsNoBody => last.out.body = ""
    /\ (~SendsNoBody /\ last.resp.data.some) => last.out.body = last.resp.data.v

\* C20, with the data_length the code looks at: no body byte is written when the
\* status is 1xx, 204 or 304, or do_not_send_body is true, or data_length is 0; in
\* every other case with data present the body bytes written are the whole data,
\* whatever data_length says; without data nothing is written.
C20_BodyIsDataWhenLengthPositive ==
  RespSent =>
    /\ SendsNoBody => last.out.body = ""
    /\ last.resp.data_length = 0 => last.out.body = ""
    /\ ~last.resp.data.some => last.out.body = ""
    /\ (~SendsNoBody /\ last.resp.data.some /\ last.resp.data_length >= 1) =>
         last.out.body = last.resp.data.v

\* data of three bytes not sent under status 200 and a data_length of 0
C20_DataNotSent ==
  /\ RespSent
  /\ last.resp.status_code = 200
  /\ ~last.dnsb
  /\ last.resp.data = Some("abc")
  /\ last.resp.data_length = 0
  /\ last.out.body = ""

\* the values of the headers named name, in order
RECURSIVE ValuesNamed(_, _)
ValuesNamed(headers, name) ==
  IF headers = <<>> THEN <<>>
  ELSE (IF equiv(Head(headers).field, name) THEN <<Head(headers).value>> ELSE <<>>)
       \o ValuesNamed(Tail(headers), name)

\* C21: the output of raw_print holds at least one Date and one Server header; when
\* the response has Date headers the output holds exactly those values and no
\* synthesized one, otherwise exactly one Date with the time of sending; when the
\* response has Server headers the output holds exactly those values, otherwise
\* exactly one Server with the default string.
C21_DateAndServer ==
  RespSent =>
    LET out == FramedHeaders(last.out.head)
        dates == ValuesNamed(last.resp.headers, "Date")
        servers == ValuesNamed(last.resp.headers, "Server")
    IN /\ ValuesNamed(out, "Date") # <<>>
       /\ ValuesNamed(out, "Server") # <<>>
       /\ ValuesNamed(out, "Date") = IF dates = <<>> THEN <<Now>> ELSE dates
       /\ ValuesNamed(out, "Server") =
            IF servers = <<>> THEN <<"Xml Rpc ArceOS (Rust)">> ELSE servers

\* a response sent with the caller's Date, in lower case, and a synthesized Server
C21_Witness ==
  /\ RespSent
  /\ ValuesNamed(last.resp.headers, "Date") = <<"Fri, 02 Jan 1970 00:00:00 GMT">>
  /\ ValuesNamed(last.resp.headers, "Server") = <<>>
  /\ ValuesNamed(FramedHeaders(last.out.head), "Date") = <<"Fri, 02 Jan 1970 00:00:00 GMT">>
  /\ ValuesNamed(FramedHeaders(last.out.head), "Server") = <<"Xml Rpc ArceOS (Rust)">>

\* the headers raw_print synthesizes for a response, in the order it inserts them
Synthesized(resp) ==
  (IF ValuesNamed(resp.headers, "Date") = <<>> THEN <<Header("Date", Now)>> ELSE <<>>)
  \o (IF ValuesNamed(resp.headers, "Server") = <<>>
      THEN <<Header("Server", "Xml Rpc ArceOS (Rust)")>> ELSE <<>>)
  \o <<Header("Content-Length", ToString(resp.data_length))>>

\* the first line of the output is an HTTP/1.0 status line and a blank line ends
\* the message header
FramedStatusLine ==
  /\ CompleteLines(last.out.head)[1] =
       "HTTP/1.0 " \o ToString(last.resp.status_code) \o " "
       \o default_reason_phrase(last.resp.status_code)
  /\ CompleteLines(last.out.head)[Len(CompleteLines(last.out.head))] = ""
  /\ HeadEnd(last.out.head) = Len(last.out.head)

\* C22: the bytes raw_print writes are an HTTP/1.0 status line, then the headers in
\* the order of their insertion: the caller's headers in the order of the
\* add_header calls, followed by the headers synthesized at send time, then a blank
\* line, then the body.
C22_InsertionOrder ==
  RespSent =>
    /\ FramedStatusLine
    /\ FramedHeaders(last.out.head) = last.resp.headers \o Synthesized(last.resp)

\* C22, as the code has it: after the status line come a synthesized Server, a
\* synthesized Date, the caller's headers in the order of the add_header calls, and
\* Content-Length last.
C22_SynthesizedFirst ==
  RespSent =>
    /\ FramedStatusLine
    /\ FramedHeaders(last.out.head) =
         (IF ValuesNamed(last.resp.headers, "Server") = <<>>
          THEN <<Header("Server", "Xml Rpc ArceOS (Rust)")>> ELSE <<>>)
         \o (IF ValuesNamed(last.resp.headers, "Date") = <<>>
             THEN <<Header("Date", Now)>> ELSE <<>>)
         \o last.resp.headers
         \o <<Header("Content-Length", ToString(last.resp.data_length))>>

\* a synthesized Server and Date written before the two headers of the caller
C22_SynthesizedPrecede ==
  /\ RespSent
  /\ last.resp.headers = <<Header("Content-Type", "text/xml"), Header("X-A", "1")>>
  /\ Len(FramedHeaders(last.out.head)) = 5
  /\ FramedHeaders(last.out.head)[1].field = "Server"
  /\ FramedHeaders(last.out.head)[2].field = "Date"
  /\ FramedHeaders(last.out.head)[3].field = "Content-Type"

(***************************************************************************)
(* BoundServer on its own: after bind, threads that share the BoundServer  *)
(* call run and local_addr in any order.  A thread that calls run is at    *)
(* "idle" before the call, in "accept_loop_tcp" once it has taken the      *)
(* listener, and "panicked" when an unwrap of run failed.                  *)
(***************************************************************************)
MaxRunners == 3

MaxCalls == 2

RunThreads == 1..MaxRunners

BindAddrs == {"127.0.0.1:8080", "0.0.0.0:9000"}

connVars == <<backlog, conn_pc, inbuf, peer_closed, cur, log, wire, sends>>

RunState(pc, poisoned, calls) ==
  [op |-> "run", pc |-> pc, poisoned |-> poisoned, calls |-> calls]

\* Server::bind at uri: both sockets bound to it and put in their slots
InitRun ==
  /\ server = BoundRegistry
  /\ missing_arg = None
  /\ reg_via = ("calc" :> "register_value")
  /\ \E uri \in BindAddrs :
       /\ tcp_listener = Some(uri)
       /\ udp_socket = Some(uri)
  /\ last = RunState([t \in RunThreads |-> "idle"], FALSE, <<>>)
  /\ main_pc = "bound"
  /\ backlog = <<>>
  /\ conn_pc = [c \in Conns |-> "none"]
  /\ inbuf = [c \in Conns |-> ""]
  /\ peer_closed = [c \in Conns |-> FALSE]
  /\ cur = [c \in Conns |-> None]
  /\ log = [c \in Conns |-> <<>>]
  /\ wire = [c \in Conns |-> ""]
  /\ sends = 0
  /\ udp_inq = <<>>
  /\ udp_pc = "none"
  /\ udp_cur = None
  /\ udp_log = <<>>
  /\ udp_sent = <<>>
  /\ arrived = <<>>

\* run, first statement, on a slot that holds the listener: the listener is taken
\* and accept_loop_tcp is entered, which has no exit
RunTakes(t) ==
  /\ last.pc[t] = "idle"
  /\ ~last.poisoned
  /\ tcp_listener.some
  /\ tcp_listener' = None
  /\ last' = RunState([last.pc EXCEPT ![t] = "accept_loop_tcp"], FALSE, last.calls)
  /\ UNCHANGED <<server, missing_arg, reg_via, udp_socket, main_pc, connVars, udpVars>>

\* run, first statement, on an empty slot: take() gives None, the unwrap panics
\* while the lock is held, and the mutex is poisoned
RunFindsNone(t) ==
  /\ last.pc[t] = "idle"
  /\ ~last.poisoned
  /\ ~tcp_listener.some
  /\ last' = RunState([last.pc EXCEPT ![t] = "panicked"], TRUE, last.calls)
  /\ UNCHANGED <<server, missing_arg, reg_via, tcp_listener, udp_socket, main_pc,
                 connVars, udpVars>>

\* run, first statement, on a poisoned mutex: lock().unwrap() panics
RunFindsPoison(t) ==
  /\ last.pc[t] = "idle"
  /\ last.poisoned
  /\ last' = RunState([last.pc EXCEPT ![t] = "panicked"], TRUE, last.calls)
  /\ UNCHANGED <<server, missing_arg, reg_via, tcp_listener, udp_socket, main_pc,
                 connVars, udpVars>>

\* what local_addr returns
local_addr ==
  IF last.poisoned THEN [ret |-> "panic", addr |-> ""]
  ELSE IF tcp_listener.some THEN [ret |-> "Some", addr |-> tcp_listener.v]
  ELSE [ret |-> "None", addr |-> ""]

\* a thread calls local_addr
LocalAddr ==
  /\ Len(last.calls) < MaxCalls
  /\ last' = RunState(last.pc, last.poisoned,
                      Append(last.calls, [ret |-> local_addr.ret, addr |-> local_addr.addr,
                                          running |-> {t \in RunThreads :
                                                         last.pc[t] = "accept_loop_tcp"}]))
  /\ UNCHANGED <<server, missing_arg, reg_via, tcp_listener, udp_socket, main_pc,
                 connVars, udpVars>>

NextRun ==
  \/ \E t \in RunThreads : RunTakes(t)
  \/ \E t \in RunThreads : RunFindsNone(t)
  \/ \E t \in RunThreads : RunFindsPoison(t)
  \/ LocalAddr

SpecRun == InitRun /\ [][NextRun]_vars

\* the threads whose run call is inside accept_loop_tcp
RunBegun == {t \in RunThreads : last.pc[t] = "accept_loop_tcp"}

\* C23: once run has begun both slots are empty, and at most one accept loop holds
\* the TCP listener.
C23_TakenOnceAtStart ==
  /\ RunBegun = {} => (tcp_listener.some /\ udp_socket.some)
  /\ RunBegun # {} => (~tcp_listener.some /\ ~udp_socket.some)
  /\ Cardinality(RunBegun) <= 1

\* C23, for the TCP listener alone: its slot holds it until the first run call, is
\* empty from then on, and at most one accept loop holds it; the slot of the UDP
\* socket holds the socket in every state.
C23_ListenerTakenOnce ==
  /\ RunBegun = {} <=> tcp_listener.some
  /\ Cardinality(RunBegun) <= 1
  /\ udp_socket.some
  /\ \A t \in RunThreads : last.pc[t] = "panicked" => RunBegun # {}

\* one run call is in the accept loop, the others have panicked, and the UDP socket
\* is in its slot
C23_SocketNeverTaken ==
  /\ Cardinality(RunBegun) = 1
  /\ \A t \in RunThreads \ RunBegun : last.pc[t] = "panicked"
  /\ udp_socket.some

IsHandled(e) == e.ev = "handler"

\* the responses the handler returned on connection c, in order
HandledOf(c) == SelectSeq(log[c], IsHandled)

\* C24: in every state after bind the registry is the one bind was given, and two
\* requests with the same body, on the same or on different connections, get the
\* same response from the handler.
C24_RegistryFixed ==
  /\ server = BoundRegistry
  /\ \A c \in Conns, d \in Conns :
       \A k \in 1..Len(HandledOf(c)), m \in 1..Len(HandledOf(d)) :
         ReadsOf(c)[k].request.body = ReadsOf(d)[m].request.body =>
           HandledOf(c)[k].response = HandledOf(d)[m].response

\* two connections hold the handler's response to the same call at the same time
C24_Witness ==
  /\ conn_pc[1] = "raw_print"
  /\ conn_pc[2] = "raw_print"
  /\ ReadsOf(1)[1].request.body = ReadsOf(2)[1].request.body
  /\ ReadsOf(1)[1].request.body = Some(CallToXml(Call("calc", <<Int32(1), Int32(2)>>)))
  /\ cur[1].response.status_code = 200
  /\ cur[1].response = cur[2].response
  /\ server = BoundRegistry

\* C25: a datagram for which create_request returns an error is dropped: the drop
\* follows its receipt at once, with no handler call and no send for it, the loop
\* is back at recv_from holding nothing, and what follows is the receipt of the next
\* datagram; the socket has sent nothing but the replies to handled requests.
C25_FramingErrorDropsDatagram ==
  /\ \A i \in 1..Len(udp_log) :
       udp_log[i].ev = "drop" =>
         /\ i > 1
         /\ udp_log[i - 1].ev = "recv"
         /\ i < Len(udp_log) => udp_log[i + 1].ev = "recv"
         /\ i = Len(udp_log) =>
              /\ udp_pc = "recv_from"
              /\ udp_cur = None
              /\ udp_inq # <<>> => ENABLED UdpRecv
  /\ Len(udp_sent) = Count(udp_log, Len(udp_log), "sent")
  /\ Count(udp_log, Len(udp_log), "handler") <= Count(udp_log, Len(udp_log), "read")

\* a datagram with an unknown method is dropped and the call in the next datagram
\* is given to the handler
C25_Witness ==
  /\ Len(udp_log) = 5
  /\ udp_log[1].ev = "recv"
  /\ udp_log[1].data = MsgBadMethod
  /\ udp_log[2].ev = "drop"
  /\ udp_log[2].error.msg = "Invalid Method"
  /\ udp_log[3].ev = "recv"
  /\ udp_log[4].ev = "read"
  /\ udp_log[5].ev = "handler"
  /\ udp_log[5].response.status_code = 200
  /\ udp_sent = <<>>

(***************************************************************************)
(* The UDP path under any handler: BoundServer is generic in its handler,  *)
(* which may return a response of any length.                               *)
(***************************************************************************)
\* n bytes of text
RECURSIVE Text(_)
Text(n) ==
  IF n = 0 THEN ""
  ELSE IF n % 2 = 0 THEN Twice(Text(n \div 2))
  ELSE "x" \o Text(n - 1)

\* the numbers of values a handler returns, each an Array of 8 Strings of 48
\* bytes: few, and enough to bring the framed response to the size of the buffer
\* and beyond
ReplyParamCounts == {0, 1, 3, 5, 6, 7, 8}

\* the responses handle_outer builds for a handler that returns such values, and
\* the response to a request that is no call
HandlerResponses ==
  {from_data("text/xml",
             Some(to_xml(Success([i \in 1..n |-> Array([j \in 1..8 |-> Str(Text(48))])])))) :
     n \in ReplyParamCounts}
  \cup {empty_400}

\* the handler returns any of the responses
UdpHandleAny(response) ==
  /\ udp_pc = "handler"
  /\ UdpHandlerReturns(response)

NextUdpAny ==
  \/ \E src \in Peers, data \in Datagrams : DatagramArrives(src, data)
  \/ UdpRecv
  \/ UdpParse
  \/ \E response \in HandlerResponses : UdpHandleAny(response)
  \/ UdpReply

SpecUdpAny == InitUdp /\ [][NextUdpAny]_vars

\* the payload handle_udp_message gave to send for the reply event e
ReplyPayload(e) == Filled(UdpBufSize, e.written, TRUE)

\* C26: the payload given to the socket for a reply is never longer than 4096
\* bytes, whatever the length of the framed response.
C26_PayloadWithinBuffer ==
  \A i \in 1..Len(udp_log) :
    udp_log[i].ev \in {"sent", "send_err"} => Len(ReplyPayload(udp_log[i])) <= UdpBufSize

\* C26, as the code has it: the payload is the framed response followed by bytes 0
\* up to 4096 bytes, and the whole framed response when that is longer.
C26_PayloadIsBufferOrMore ==
  \A i \in 1..Len(udp_log) :
    udp_log[i].ev \in {"sent", "send_err"} =>
      /\ Len(ReplyPayload(udp_log[i])) >= UdpBufSize
      /\ Len(ReplyPayload(udp_log[i])) >= Len(udp_log[i].written)
      /\ SubSeq(ReplyPayload(udp_log[i]), 1, Len(udp_log[i].written)) = udp_log[i].written

\* a framed response of more than 4096 bytes given to send whole
C26_PayloadBeyondBuffer ==
  /\ udp_log # <<>>
  /\ udp_log[Len(udp_log)].ev = "send_err"
  /\ Len(udp_log[Len(udp_log)].written) > UdpBufSize
  /\ ReplyPayload(udp_log[Len(udp_log)]) = udp_log[Len(udp_log)].written

\* the address Server::bind bound both sockets to (the UDP socket stays in its slot)
BoundAddr == udp_socket.v

\* C27: every call of local_addr after bind returns the address the TCP listener
\* was bound to, before run is called and while run is executing on another thread.
C27_LocalAddrIsBound ==
  \A i \in 1..Len(last.calls) :
    /\ last.calls[i].ret = "Some"
    /\ last.calls[i].addr = BoundAddr

\* C27, as the code has it: local_addr returns the bound address exactly when no run
\* call has begun; while run is executing it returns None, or panics once a further
\* run call has poisoned the mutex.
C27_LocalAddrUntilRun ==
  \A i \in 1..Len(last.calls) :
    /\ last.calls[i].running = {} =>
         (last.calls[i].ret = "Some" /\ last.calls[i].addr = BoundAddr)
    /\ last.calls[i].running # {} => last.calls[i].ret \in {"None", "panic"}

\* local_addr returned the bound address before run, and None while run is executing
C27_NoneWhileRunning ==
  /\ Len(last.calls) = 2
  /\ last.calls[1].ret = "Some" /\ last.calls[1].running = {}
  /\ last.calls[2].ret = "None" /\ Cardinality(last.calls[2].running) = 1

\* the events of connection c that record a raw_print which returned an error
FailedWrites(c) ==
  {i \in 1..Len(log[c]) : log[c][i].ev = "write" /\ log[c][i].outcome # "ok"}

\* C28: a raw_print that returns an error does not end the loop of
\* handle_connection: after it the thread is at the next create_request, or has
\* gone through it; the thread has ended only where create_request failed.
C28_WriteFailureKeepsLoop ==
  \A c \in Conns :
    LET l == log[c]
    IN /\ \A i \in FailedWrites(c) :
            IF i = Len(l)
            THEN /\ conn_pc[c] = "create_request"
                 /\ cur[c] = None
                 /\ \E r \in {create_request(inbuf[c], peer_closed[c], ConnAddr(c))} :
                      r.kind # "block" => ENABLED ConnReadReturns(c, r)
            ELSE l[i + 1].ev \in {"read", "read_err", "panic"}
       /\ conn_pc[c] \in {"closed", "panicked"} <=>
            (l # <<>> /\ l[Len(l)].ev \in {"read_err", "panic"})

\* on connection 1 the first response could not be written, and the thread went on
\* to read the second request, which the peer had sent before it went away
C28_Witness ==
  /\ Len(log[1]) >= 4
  /\ 3 \in FailedWrites(1)
  /\ log[1][4].ev = "read"
  /\ conn_pc[1] = "handler"

\* a header that sets data_length: a Content-Length whose value is an unsigned integer
SetsLength(header) ==
  equiv(header.field, "Content-Length") /\ ParseUsize(header.value).some

\* no header of the list is Connection, Trailer, Transfer-Encoding, Upgrade or
\* Content-Length, and at most one is Content-Type
HeadersClean(headers) ==
  /\ \A i \in 1..Len(headers) :
       /\ ~IsForbidden(headers[i].field)
       /\ ~equiv(headers[i].field, "Content-Length")
  /\ Cardinality(HeadersNamed(headers, "Content-Type")) <= 1

\* Response::new was called with a header list that holds a Content-Length
RespNewWithLength ==
  /\ last.op = "new"
  /\ last.n = 1
  /\ HeadersNamed(last.hs, "Content-Length") # {}

\* C29: after any sequence of new, add_header, with_header, with_status_code and
\* with_data the header list of the response holds no Connection, Trailer,
\* Transfer-Encoding, Upgrade or Content-Length and at most one Content-Type; a
\* Content-Length in the header list given to new is not stored and replaces the
\* data_length given as argument: the response built is the same whatever
\* data_length is given.
C29_BuilderInvariant ==
  /\ HeadersClean(last.resp.headers)
  /\ RespNewWithLength =>
       \A d \in RespData :
         d.data = last.resp.data =>
           last.resp = Response_new(last.resp.status_code, last.hs, d.data, d.len)

\* C29, with the parse the code makes: the header list is clean in every state; new
\* stores no Content-Length of its list, and data_length is the value of the last
\* Content-Length of the list that is an unsigned integer, whatever data_length is
\* given; when no Content-Length of the list is one, data_length is the argument.
C29_BuilderInvariantParsed ==
  /\ HeadersClean(last.resp.headers)
  /\ RespNewWithLength =>
       LET cl == SelectSeq(last.hs, SetsLength)
       IN \A d \in RespData :
            d.data = last.resp.data =>
              LET r == Response_new(last.resp.status_code, last.hs, d.data, d.len)
              IN /\ r.headers = last.resp.headers
                 /\ r.data_length = IF cl # <<>> THEN ParseUsize(cl[Len(cl)].value).v
                                    ELSE d.len
                 /\ cl # <<>> => r = last.resp

\* new given Content-Length: 5, a Trailer, content-length: 9 and a plain header
C29_Witness ==
  /\ RespNewWithLength
  /\ Len(last.hs) = 4
  /\ last.resp.data = Some("abc")
  /\ last.resp.data_length = 9
  /\ last.resp.headers = <<Header("X-A", "1")>>

\* new given content-length: abc and a data_length of 3, which stays
C29_UnparsedLengthKeepsArgument ==
  /\ RespNewWithLength
  /\ last.hs[1] = Header("content-length", "abc")
  /\ last.resp.data_length = 3
  /\ last.resp.headers = <<Header("Content-Type", "c/d")>>

====
